---- MODULE Spec2Model ----
(***************************************************************************)
(* A model of spin-plugin-azure: the command handlers of the CLI, the      *)
(* JSON configuration store they load and save, and the external commands  *)
(* (az, kubectl, helm, sleep) they start.  One action is one run of a      *)
(* command handler.  The cloud and the cluster are the environment: an     *)
(* external command either exits non-zero (chosen by the input fail) or    *)
(* succeeds and has its documented effect on the environment.              *)
(***************************************************************************)
EXTENDS Integers, Sequences, FiniteSets, TLC

VARIABLES
    file,   \* ~/.spin-azure/config.json: <<>> when absent, <<cfg>> when written
    wiOn,   \* clusters <<resourceGroup, name>> with workload identity enabled
    sa,     \* service accounts of namespace "default": <<rg, cluster, name, clientID>>
    last,   \* the last handler run: its inputs, external calls and result
    prev,   \* the handler run before the last one, when it is one to repeat
    nops,   \* the number of handler runs so far
    cfgIn,  \* codec: the record handed to SaveConfig
    disk,   \* codec: the text of config.json, <<>> when absent
    cfgOut, \* codec: the record LoadConfig returned
    jpc,    \* codec: "new", "saved" or "loaded"
    argv,   \* scan: the arguments handed to RunE of cluster create
    start,  \* scan: the variables of the scan loop before the loop
    parsed, \* scan: <<p>>, the variables after the loop of the handler
    reference, \* scan: <<p>>, the variables after the loop of the test
    pc,     \* race: where each concurrent invocation stands
    job,    \* race: the command and flags of each invocation
    loaded, \* race: <<cfg>>, the record each invocation got from LoadConfig
    staleBy, \* race: the invocations that saved since this one loaded
    lastWriter, \* race: <<p>>, the invocation whose SaveConfig came last
    cc,     \* spinner: where CreateCluster stands
    azOK,   \* spinner: whether az aks create exited zero
    sp,     \* spinner: the goroutine: "none", "waiting", "stopped" or "killed"
    frame,  \* spinner: the index i of the frame shown
    tick,   \* spinner: a tick is waiting in the channel of the ticker
    closes, \* spinner: how often the channel done has been closed
    printed \* spinner: the number of writes of the spinner to the terminal

sessionVars == <<file, wiOn, sa, last, prev, nops>>
codecVars == <<cfgIn, disk, cfgOut, jpc>>
scanVars == <<argv, start, parsed, reference>>
raceVars == <<pc, job, loaded, staleBy, lastWriter>>
spinVars == <<cc, azOK, sp, frame, tick, closes, printed>>
vars == <<sessionVars, codecVars, scanVars, raceVars, spinVars>>

-----------------------------------------------------------------------------
(* Values the inputs are drawn from.                                       *)

Names == {"demo", "old"}
RGs == {"rg1", "rg2"}
Ids == {"workload-identity", "id2"}
Sub == "sub1"
Tenant == "tenant1"

-----------------------------------------------------------------------------
(* The configuration record and the store.                                 *)

\* The zero value of config.Config.  The handlers call the identity field
\* IdentityName; the struct declaration at hand calls it WorkloadIdentity.
Config ==
    [SubscriptionID |-> "", TenantID |-> "", ResourceGroup |-> "",
     ClusterName |-> "", Location |-> "", IdentityName |-> "",
     WorkspaceLocation |-> ""]

\* LoadConfig: an absent file is the default record, not an error.
LoadConfig(f) == IF f = <<>> THEN Config ELSE f[1]

\* SaveConfig: the file is overwritten by the record.
SaveConfig(cfg) == <<cfg>>

NoClusterSelected(cfg) == cfg.ClusterName = "" \/ cfg.ResourceGroup = ""

-----------------------------------------------------------------------------
(* Running external commands.  A handler run is threaded through a record  *)
(* s = [file, wiOn, sa, log, err, ret, out]; log is the sequence of        *)
(* argument vectors started so far, err the error returned ("" is nil),    *)
(* ret a returned boolean and out a returned string.  The input f is the   *)
(* index of the external command that exits non-zero (0: none does).       *)

ErrExternal == "external command failed"
ErrNoCluster == "no cluster is currently selected"
ErrNoSubscription == "subscription ID not set"
ErrCredential == "failed to get Azure credential"

Start(f0, w0, a0) ==
    [file |-> f0, wiOn |-> w0, sa |-> a0, log |-> <<>>, err |-> "",
     ret |-> FALSE, out |-> ""]

Fail(s, e) == [s EXCEPT !.err = e]

\* exec.Command(...).CombinedOutput(): the command is started; it fails when it
\* is the f-th command of the run.
Exec(s, c) == [s EXCEPT !.log = Append(@, c)]
Failed(s, f) == Len(s.log) = f

RECURSIVE RunAllUnchecked(_, _, _)
\* Commands started one after the other, the exits looked at only at the end.
RunAllUnchecked(s, f, cmds) ==
    IF cmds = <<>> THEN (IF f \in 1..Len(s.log) THEN Fail(s, ErrExternal) ELSE s)
    ELSE RunAllUnchecked(Exec(s, Head(cmds)), f, Tail(cmds))

RECURSIVE RunAll(_, _, _)
\* Commands started one after the other, each checked before the next starts.
RunAll(s, f, cmds) ==
    IF cmds = <<>> THEN s
    ELSE LET s1 == Exec(s, Head(cmds))
         IN  IF Failed(s1, f) THEN Fail(s1, ErrExternal)
             ELSE RunAll(s1, f, Tail(cmds))

Digits == <<"0", "1", "2", "3", "4", "5", "6", "7", "8", "9">>

RECURSIVE Itoa(_)
\* fmt.Sprintf("%d", n) for n >= 0
Itoa(n) == IF n < 10 THEN Digits[n + 1] ELSE Itoa(n \div 10) \o Digits[(n % 10) + 1]

-----------------------------------------------------------------------------
(* package aks: the cluster provisioning pipeline.                         *)

AzAksCreate(sub, resourceGroup, clusterName, location, nodeCount, nodeVMSize) ==
    <<"az", "aks", "create",
      "--resource-group", resourceGroup,
      "--name", clusterName,
      "--location", location,
      "--enable-oidc-issuer",
      "--enable-workload-identity",
      "--generate-ssh-keys",
      "--node-count", Itoa(nodeCount),
      "--node-vm-size", nodeVMSize,
      "--dns-name-prefix", clusterName \o "-wid",
      "--subscription", sub>>

\* A CreateCluster that writes the store back without the new selection.
CreateClusterStale(s, f, sub, resourceGroup, clusterName, location, nodeCount, nodeVMSize, additionalArgs) ==
    LET s1 == Exec(s, AzAksCreate(sub, resourceGroup, clusterName, location, nodeCount, nodeVMSize)
                      \o additionalArgs)
    IN  IF Failed(s1, f) THEN Fail(s1, ErrExternal)
        ELSE [s1 EXCEPT !.wiOn = @ \cup {<<resourceGroup, clusterName>>},
                        !.file = SaveConfig(LoadConfig(s1.file))]

\* A CreateCluster that writes the store before it looks at the command's exit.
CreateClusterEager(s, f, sub, resourceGroup, clusterName, location, nodeCount, nodeVMSize, additionalArgs) ==
    LET s1 == Exec(s, AzAksCreate(sub, resourceGroup, clusterName, location, nodeCount, nodeVMSize)
                      \o additionalArgs)
        s2 == [s1 EXCEPT !.file = SaveConfig([LoadConfig(s1.file) EXCEPT
                                                !.ClusterName = clusterName,
                                                !.ResourceGroup = resourceGroup])]
    IN  IF Failed(s2, f) THEN Fail(s2, ErrExternal)
        ELSE [s2 EXCEPT !.wiOn = @ \cup {<<resourceGroup, clusterName>>}]

\* CreateCluster: the store is written after the create command has succeeded.
CreateCluster(s, f, sub, resourceGroup, clusterName, location, nodeCount, nodeVMSize, additionalArgs) ==
    LET args == AzAksCreate(sub, resourceGroup, clusterName, location, nodeCount, nodeVMSize)
                    \o additionalArgs
        s1 == Exec(s, args)
    IN  IF Failed(s1, f) THEN Fail(s1, ErrExternal)
        ELSE LET cfg == LoadConfig(s1.file)
             IN  [s1 EXCEPT
                    !.wiOn = @ \cup {<<resourceGroup, clusterName>>},
                    !.file = SaveConfig([cfg EXCEPT !.ClusterName = clusterName,
                                                    !.ResourceGroup = resourceGroup])]

AzAksShow(sub, resourceGroup, clusterName) ==
    <<"az", "aks", "show", "--resource-group", resourceGroup, "--name", clusterName,
      "--subscription", sub>>

GetCluster(s, f, sub, resourceGroup, clusterName) ==
    LET s1 == Exec(s, AzAksShow(sub, resourceGroup, clusterName))
    IN  IF Failed(s1, f) THEN Fail(s1, ErrExternal) ELSE s1

\* A UseCluster that records the cluster whatever the query says.
UseClusterUnverified(s, f, sub, resourceGroup, clusterName) ==
    LET s1 == GetCluster(s, f, sub, resourceGroup, clusterName)
        cfg == LoadConfig(s1.file)
    IN  [s1 EXCEPT !.file = SaveConfig([cfg EXCEPT !.ClusterName = clusterName,
                                                   !.ResourceGroup = resourceGroup])]

\* A UseCluster that records the name of the cluster and not its group.
UseClusterNameOnly(s, f, sub, resourceGroup, clusterName) ==
    LET s1 == GetCluster(s, f, sub, resourceGroup, clusterName)
    IN  IF s1.err # "" THEN s1
        ELSE LET cfg == LoadConfig(s1.file)
             IN  [s1 EXCEPT !.file = SaveConfig([cfg EXCEPT !.ClusterName = clusterName])]

UseCluster(s, f, sub, resourceGroup, clusterName) ==
    LET s1 == GetCluster(s, f, sub, resourceGroup, clusterName)
    IN  IF s1.err # "" THEN s1
        ELSE LET cfg == LoadConfig(s1.file)
             IN  [s1 EXCEPT
                    !.file = SaveConfig([cfg EXCEPT !.ClusterName = clusterName,
                                                    !.ResourceGroup = resourceGroup])]

AzAksShowWorkloadIdentity(sub, resourceGroup, clusterName) ==
    <<"az", "aks", "show", "--resource-group", resourceGroup, "--name", clusterName,
      "--subscription", sub,
      "--query", "securityProfile.workloadIdentity.enabled", "--output", "tsv">>

\* What the show command prints for the cluster (tsv, trimmed).
WorkloadIdentityOutput(w, resourceGroup, clusterName) ==
    IF <<resourceGroup, clusterName>> \in w THEN "true" ELSE "false"

\* A check that expects the answer capitalised.
CheckWorkloadIdentityCapital(s, f, sub) ==
    LET cfg == LoadConfig(s.file)
    IN  IF NoClusterSelected(cfg) THEN [Fail(s, ErrNoCluster) EXCEPT !.ret = FALSE]
        ELSE LET s1 == Exec(s, AzAksShowWorkloadIdentity(sub, cfg.ResourceGroup, cfg.ClusterName))
                 result == WorkloadIdentityOutput(s1.wiOn, cfg.ResourceGroup, cfg.ClusterName)
             IN  IF Failed(s1, f) THEN [Fail(s1, ErrExternal) EXCEPT !.ret = FALSE]
                 ELSE [s1 EXCEPT !.ret = (result = "True")]

\* CheckWorkloadIdentity: true exactly when the trimmed output is "true".
CheckWorkloadIdentity(s, f, sub) ==
    LET cfg == LoadConfig(s.file)
    IN  IF NoClusterSelected(cfg) THEN [Fail(s, ErrNoCluster) EXCEPT !.ret = FALSE]
        ELSE LET s1 == Exec(s, AzAksShowWorkloadIdentity(sub, cfg.ResourceGroup, cfg.ClusterName))
                 result == WorkloadIdentityOutput(s1.wiOn, cfg.ResourceGroup, cfg.ClusterName)
             IN  IF Failed(s1, f) THEN [Fail(s1, ErrExternal) EXCEPT !.ret = FALSE]
                 ELSE [s1 EXCEPT !.ret = (result = "true")]

AzAksUpdate(sub, resourceGroup, clusterName) ==
    <<"az", "aks", "update", "--resource-group", resourceGroup, "--name", clusterName,
      "--subscription", sub, "--enable-oidc-issuer", "--enable-workload-identity">>

EnableWorkloadIdentity(s, f, sub) ==
    LET cfg == LoadConfig(s.file)
    IN  IF NoClusterSelected(cfg) THEN Fail(s, ErrNoCluster)
        ELSE LET s1 == Exec(s, AzAksUpdate(sub, cfg.ResourceGroup, cfg.ClusterName))
             IN  IF Failed(s1, f) THEN Fail(s1, ErrExternal)
                 ELSE [s1 EXCEPT !.wiOn = @ \cup {<<cfg.ResourceGroup, cfg.ClusterName>>}]

AzAksGetCredentials(sub, resourceGroup, clusterName) ==
    <<"az", "aks", "get-credentials", "--name", clusterName,
      "--resource-group", resourceGroup, "--subscription", sub, "--overwrite-existing">>

KubectlApply(url) == <<"kubectl", "apply", "-f", url>>

\* An installation that installs the Spin Operator chart right after the
\* kwasm operator, before the nodes are annotated.
OperatorStepsChartEarly(sub, cfg) ==
    << AzAksGetCredentials(sub, cfg.ResourceGroup, cfg.ClusterName),
       KubectlApply("https://github.com/spinkube/spin-operator/releases/download/v0.4.0/spin-operator.crds.yaml"),
       KubectlApply("https://github.com/spinkube/spin-operator/releases/download/v0.4.0/spin-operator.runtime-class.yaml"),
       KubectlApply("https://github.com/cert-manager/cert-manager/releases/download/v1.14.3/cert-manager.crds.yaml"),
       <<"helm", "repo", "add", "jetstack", "https://charts.jetstack.io">>,
       <<"helm", "repo", "update">>,
       <<"helm", "install", "cert-manager", "jetstack/cert-manager",
         "--namespace", "cert-manager", "--create-namespace", "--version", "v1.14.3">>,
       <<"helm", "repo", "add", "kwasm", "http://kwasm.sh/kwasm-operator/">>,
       <<"helm", "install", "kwasm-operator", "kwasm/kwasm-operator",
         "--namespace", "kwasm", "--create-namespace", "--set",
         "kwasmOperator.installerImage=ghcr.io/spinkube/containerd-shim-spin/node-installer:v0.18.0">>,
       <<"helm", "install", "spin-operator", "--namespace", "spin-operator",
         "--create-namespace", "--version", "0.4.0", "--wait",
         "oci://ghcr.io/spinkube/charts/spin-operator">>,
       <<"kubectl", "annotate", "node", "--all", "kwasm.sh/kwasm-node=true">>,
       <<"sleep", "30">>,
       KubectlApply("https://github.com/spinkube/spin-operator/releases/download/v0.4.0/spin-operator.shim-executor.yaml") >>

\* The external commands of DeploySpinOperator, in the order they are started.
OperatorSteps(sub, cfg) ==
    << AzAksGetCredentials(sub, cfg.ResourceGroup, cfg.ClusterName),
       KubectlApply("https://github.com/spinkube/spin-operator/releases/download/v0.4.0/spin-operator.crds.yaml"),
       KubectlApply("https://github.com/spinkube/spin-operator/releases/download/v0.4.0/spin-operator.runtime-class.yaml"),
       KubectlApply("https://github.com/cert-manager/cert-manager/releases/download/v1.14.3/cert-manager.crds.yaml"),
       <<"helm", "repo", "add", "jetstack", "https://charts.jetstack.io">>,
       <<"helm", "repo", "update">>,
       <<"helm", "install", "cert-manager", "jetstack/cert-manager",
         "--namespace", "cert-manager", "--create-namespace", "--version", "v1.14.3">>,
       <<"helm", "repo", "add", "kwasm", "http://kwasm.sh/kwasm-operator/">>,
       <<"helm", "install", "kwasm-operator", "kwasm/kwasm-operator",
         "--namespace", "kwasm", "--create-namespace", "--set",
         "kwasmOperator.installerImage=ghcr.io/spinkube/containerd-shim-spin/node-installer:v0.18.0">>,
       <<"kubectl", "annotate", "node", "--all", "kwasm.sh/kwasm-node=true">>,
       <<"sleep", "30">>,
       <<"helm", "install", "spin-operator", "--namespace", "spin-operator",
         "--create-namespace", "--version", "0.4.0", "--wait",
         "oci://ghcr.io/spinkube/charts/spin-operator">>,
       KubectlApply("https://github.com/spinkube/spin-operator/releases/download/v0.4.0/spin-operator.shim-executor.yaml") >>

\* DeploySpinOperator: every step is checked before the next one starts; the
\* record loaded at the start is saved again after the last step.
DeploySpinOperator(s, f, sub) ==
    LET cfg == LoadConfig(s.file)
    IN  IF NoClusterSelected(cfg) THEN Fail(s, ErrNoCluster)
        ELSE LET s1 == RunAll(s, f, OperatorSteps(sub, cfg))
             IN  IF s1.err # "" THEN s1
                 ELSE [s1 EXCEPT !.file = SaveConfig(cfg)]

-----------------------------------------------------------------------------
(* package aks: identities, service accounts and federated credentials.    *)

Namespace == "default"

\* The client ID Azure reports for the identity of that name in that group.
ClientID(name, resourceGroup) == "clientId:" \o resourceGroup \o "/" \o name

AzIdentityShow(sub, name, resourceGroup) ==
    <<"az", "identity", "show", "--name", name, "--resource-group", resourceGroup,
      "--subscription", sub, "--query", "clientId", "--output", "tsv">>

\* getIdentityClientID: an empty resource group falls back to the stored one.
getIdentityClientID(s, f, sub, name, resourceGroup) ==
    LET rg == IF resourceGroup = "" THEN LoadConfig(s.file).ResourceGroup ELSE resourceGroup
        s1 == Exec(s, AzIdentityShow(sub, name, rg))
    IN  IF Failed(s1, f) THEN [Fail(s1, ErrExternal) EXCEPT !.out = ""]
        ELSE [s1 EXCEPT !.out = ClientID(name, rg)]

KubectlGetServiceAccount(identityName) ==
    <<"kubectl", "get", "serviceaccount", identityName, "-n", Namespace, "--ignore-not-found">>

\* What kubectl prints for the named service account of the cluster the
\* credentials were fetched for: a header and one row, or nothing.
ServiceAccountOutput(a, resourceGroup, clusterName, identityName) ==
    IF \E x \in a : x[1] = resourceGroup /\ x[2] = clusterName /\ x[3] = identityName
    THEN <<"NAME", "SECRETS", "AGE", identityName, "0", "1m">>
    ELSE <<>>

\* A comparison of the whole output with the name.
ContainsWhole(output, name) == name = "" \/ output = <<name>>

\* strings.Contains(output, name) on the words of the output.
Contains(output, name) == name = "" \/ \E i \in 1..Len(output) : output[i] = name

\* kubectl apply -f <temp file> with the rendered manifest.
KubectlApplyServiceAccount(identityName, clientID) ==
    <<"kubectl", "apply", "-f", "sa-*.yaml",
      "kind: ServiceAccount", "name: " \o identityName, "namespace: " \o Namespace,
      "azure.workload.identity/client-id: " \o clientID>>

\* kubectl apply of a service account: created, or replaced when present.
ApplyServiceAccount(a, resourceGroup, clusterName, identityName, clientID) ==
    {x \in a : ~(x[1] = resourceGroup /\ x[2] = clusterName /\ x[3] = identityName)}
        \cup {<<resourceGroup, clusterName, identityName, clientID>>}

CreateServiceAccount(s, f, sub, identityName) ==
    LET cfg == LoadConfig(s.file)
    IN  IF NoClusterSelected(cfg) THEN Fail(s, ErrNoCluster)
        ELSE
        LET s1 == Exec(s, AzAksGetCredentials(sub, cfg.ResourceGroup, cfg.ClusterName))
        IN  IF Failed(s1, f) THEN Fail(s1, ErrExternal)
            ELSE
            LET s2 == getIdentityClientID(s1, f, sub, identityName, cfg.ResourceGroup)
                identityClientID == s2.out
            IN  IF s2.err # "" THEN s2
                ELSE
                LET s3 == Exec(s2, KubectlGetServiceAccount(identityName))
                    output == ServiceAccountOutput(s3.sa, cfg.ResourceGroup, cfg.ClusterName, identityName)
                IN  IF Failed(s3, f) THEN Fail(s3, ErrExternal)
                    ELSE IF Contains(output, identityName) THEN s3
                    ELSE
                    LET s4 == Exec(s3, KubectlApplyServiceAccount(identityName, identityClientID))
                    IN  IF Failed(s4, f) THEN Fail(s4, ErrExternal)
                        ELSE [s4 EXCEPT !.sa = ApplyServiceAccount(@, cfg.ResourceGroup,
                                                  cfg.ClusterName, identityName, identityClientID)]

\* The issuer URL Azure reports for the cluster.
IssuerURL(clusterName, resourceGroup) == "https://oidc/" \o resourceGroup \o "/" \o clusterName

AzAksShowIssuer(sub, clusterName, resourceGroup) ==
    <<"az", "aks", "show", "--name", clusterName, "--resource-group", resourceGroup,
      "--subscription", sub, "--query", "oidcIssuerProfile.issuerUrl", "--output", "tsv">>

getClusterOIDCIssuerURL(s, f, sub, clusterName, resourceGroup) ==
    LET s1 == Exec(s, AzAksShowIssuer(sub, clusterName, resourceGroup))
    IN  IF Failed(s1, f) THEN [Fail(s1, ErrExternal) EXCEPT !.out = ""]
        ELSE [s1 EXCEPT !.out = IssuerURL(clusterName, resourceGroup)]

AzFederatedCredentialCreate(sub, identityName, resourceGroup, oidcURL) ==
    <<"az", "identity", "federated-credential", "create",
      "--name", identityName \o "-federated-credential",
      "--identity-name", identityName,
      "--resource-group", resourceGroup,
      "--subscription", sub,
      "--issuer", oidcURL,
      "--subject", "system:serviceaccount:" \o Namespace \o ":" \o identityName,
      "--audiences", "api://AzureADTokenExchange">>

createFederatedCredential(s, f, sub, identityName, clientID, clusterName, resourceGroup) ==
    LET s1 == getClusterOIDCIssuerURL(s, f, sub, clusterName, resourceGroup)
    IN  IF s1.err # "" THEN s1
        ELSE LET s2 == Exec(s1, AzFederatedCredentialCreate(sub, identityName, resourceGroup, s1.out))
             IN  IF Failed(s2, f) THEN Fail(s2, ErrExternal) ELSE s2

AzIdentityCreate(sub, identityName, resourceGroup) ==
    <<"az", "identity", "create", "--name", identityName,
      "--resource-group", resourceGroup, "--subscription", sub>>

\* The service account and the federated credential, when asked for.
WithServiceAccount(s, f, sub, identityName, clientID, clusterName, resourceGroup) ==
    LET s1 == CreateServiceAccount(s, f, sub, identityName)
    IN  IF s1.err # "" THEN s1
        ELSE createFederatedCredential(s1, f, sub, identityName, clientID, clusterName, resourceGroup)

\* A CreateIdentity that saves the identity name before the service account
\* and the federated credential are created.
CreateIdentitySavesEarly(s, f, sub, identityName, resourceGroup, createServiceAccount) ==
    LET cfg == LoadConfig(s.file)
    IN  IF createServiceAccount /\ NoClusterSelected(cfg) THEN Fail(s, ErrNoCluster)
        ELSE
        LET s1 == Exec(s, AzIdentityCreate(sub, identityName, resourceGroup))
        IN  IF Failed(s1, f) THEN Fail(s1, ErrExternal)
            ELSE
            LET s2 == getIdentityClientID(s1, f, sub, identityName, resourceGroup)
                clientID == s2.out
                s2s == [s2 EXCEPT !.file = SaveConfig([cfg EXCEPT !.IdentityName = identityName])]
            IN  IF s2.err # "" THEN s2
                ELSE IF createServiceAccount
                     THEN WithServiceAccount(s2s, f, sub, identityName, clientID,
                                             cfg.ClusterName, resourceGroup)
                     ELSE s2s

CreateIdentity(s, f, sub, identityName, resourceGroup, createServiceAccount) ==
    LET cfg == LoadConfig(s.file)
    IN  IF createServiceAccount /\ NoClusterSelected(cfg) THEN Fail(s, ErrNoCluster)
        ELSE
        LET s1 == Exec(s, AzIdentityCreate(sub, identityName, resourceGroup))
        IN  IF Failed(s1, f) THEN Fail(s1, ErrExternal)
            ELSE
            LET s2 == getIdentityClientID(s1, f, sub, identityName, resourceGroup)
                clientID == s2.out
            IN  IF s2.err # "" THEN s2
                ELSE
                LET s3 == IF createServiceAccount
                          THEN WithServiceAccount(s2, f, sub, identityName, clientID,
                                                  cfg.ClusterName, resourceGroup)
                          ELSE s2
                IN  IF s3.err # "" THEN s3
                    ELSE [s3 EXCEPT !.file = SaveConfig([cfg EXCEPT !.IdentityName = identityName])]

UseIdentity(s, f, sub, identityName, resourceGroup, createServiceAccount) ==
    LET s1 == getIdentityClientID(s, f, sub, identityName, resourceGroup)
        clientID == s1.out
    IN  IF s1.err # "" THEN s1
        ELSE
        LET cfg == LoadConfig(s1.file)
        IN  IF NoClusterSelected(cfg) THEN Fail(s1, ErrNoCluster)
            ELSE
            LET s2 == IF createServiceAccount
                      THEN WithServiceAccount(s1, f, sub, identityName, clientID,
                                              cfg.ClusterName, resourceGroup)
                      ELSE s1
            IN  IF s2.err # "" THEN s2
                ELSE [s2 EXCEPT !.file = SaveConfig([cfg EXCEPT !.IdentityName = identityName])]

-----------------------------------------------------------------------------
(* package deploy: the deployment dispatcher.                              *)

ErrNotFound == "SpinApp YAML file not found"
ErrNoServiceAccount == "service account not found in namespace"

\* os.Stat of the manifest path: nil when the file is there, ENOENT when the
\* last component is missing, ENOTDIR when a component of the path is a file.
StatErrors == {"nil", "ENOENT", "ENOTDIR"}
FileExists(statErr) == statErr = "nil"

\* os.IsNotExist(err)
IsNotExist(statErr) == statErr = "ENOENT"

KubectlDryRun(path) == <<"kubectl", "apply", "--dry-run=client", "-f", path, "-o", "name">>

deploySpinAppYAML(s, f, spinAppYAMLPath) ==
    RunAll(s, f, <<KubectlDryRun(spinAppYAMLPath), KubectlApply(spinAppYAMLPath)>>)

\* A Deploy that fetches the cluster credentials before it looks at the manifest.
DeployCredentialsFirst(s, f, sub, spinAppYAMLPath, statErr, identityName) ==
    LET cfg == LoadConfig(s.file)
    IN  IF NoClusterSelected(cfg) THEN Fail(s, ErrNoCluster)
        ELSE
        LET s1 == Exec(s, AzAksGetCredentials(sub, cfg.ResourceGroup, cfg.ClusterName))
        IN  IF Failed(s1, f) THEN Fail(s1, ErrExternal)
            ELSE IF IsNotExist(statErr) THEN Fail(s1, ErrNotFound)
            ELSE
            LET s2 == Exec(s1, KubectlGetServiceAccount(identityName))
                output == ServiceAccountOutput(s2.sa, cfg.ResourceGroup, cfg.ClusterName, identityName)
            IN  IF Failed(s2, f) THEN Fail(s2, ErrExternal)
                ELSE IF ~Contains(output, identityName) THEN Fail(s2, ErrNoServiceAccount)
                ELSE IF ~FileExists(statErr)
                THEN Fail(Exec(s2, KubectlDryRun(spinAppYAMLPath)), ErrExternal)
                ELSE deploySpinAppYAML(s2, f, spinAppYAMLPath)

\* Deploy: kubectl cannot read a manifest that is not there, so the dry run of
\* such a path exits non-zero.
Deploy(s, f, sub, spinAppYAMLPath, statErr, identityName) ==
    LET cfg == LoadConfig(s.file)
    IN  IF NoClusterSelected(cfg) THEN Fail(s, ErrNoCluster)
        ELSE IF IsNotExist(statErr) THEN Fail(s, ErrNotFound)
        ELSE
        LET s1 == Exec(s, AzAksGetCredentials(sub, cfg.ResourceGroup, cfg.ClusterName))
        IN  IF Failed(s1, f) THEN Fail(s1, ErrExternal)
            ELSE
            LET s2 == Exec(s1, KubectlGetServiceAccount(identityName))
                output == ServiceAccountOutput(s2.sa, cfg.ResourceGroup, cfg.ClusterName, identityName)
            IN  IF Failed(s2, f) THEN Fail(s2, ErrExternal)
                ELSE IF ~Contains(output, identityName) THEN Fail(s2, ErrNoServiceAccount)
                ELSE IF ~FileExists(statErr)
                THEN Fail(Exec(s2, KubectlDryRun(spinAppYAMLPath)), ErrExternal)
                ELSE deploySpinAppYAML(s2, f, spinAppYAMLPath)

-----------------------------------------------------------------------------
(* package bind: role assignment on a Cosmos DB account.                   *)

\* What Azure reports for the identity and the account.
PrincipalID(name, resourceGroup) == "principalId:" \o resourceGroup \o "/" \o name
CosmosDBResourceID(sub, name, resourceGroup) ==
    "/subscriptions/" \o sub \o "/resourceGroups/" \o resourceGroup
        \o "/providers/Microsoft.DocumentDB/databaseAccounts/" \o name

AzCosmosCheckName(sub, name) ==
    <<"az", "cosmosdb", "check-name-exists", "--name", name, "--subscription", sub>>

AzCosmosShow(sub, name, resourceGroup) ==
    <<"az", "cosmosdb", "show", "--name", name, "--resource-group", resourceGroup,
      "--subscription", sub>>

validateCosmosDBAccount(s, f, sub, name, resourceGroup) ==
    RunAll(s, f, <<AzCosmosCheckName(sub, name), AzCosmosShow(sub, name, resourceGroup)>>)

AzIdentityShowPrincipal(sub, name, resourceGroup) ==
    <<"az", "identity", "show", "--name", name, "--resource-group", resourceGroup,
      "--subscription", sub, "--query", "principalId", "--output", "tsv">>

getIdentityPrincipalID(s, f, sub, name, resourceGroup) ==
    LET s1 == Exec(s, AzIdentityShowPrincipal(sub, name, resourceGroup))
    IN  IF Failed(s1, f) THEN [Fail(s1, ErrExternal) EXCEPT !.out = ""]
        ELSE [s1 EXCEPT !.out = PrincipalID(name, resourceGroup)]

AzCosmosShowID(sub, name, resourceGroup) ==
    <<"az", "cosmosdb", "show", "--name", name, "--resource-group", resourceGroup,
      "--subscription", sub, "--query", "id", "--output", "tsv">>

getCosmosDBResourceID(s, f, sub, name, resourceGroup) ==
    LET s1 == Exec(s, AzCosmosShowID(sub, name, resourceGroup))
    IN  IF Failed(s1, f) THEN [Fail(s1, ErrExternal) EXCEPT !.out = ""]
        ELSE [s1 EXCEPT !.out = CosmosDBResourceID(sub, name, resourceGroup)]

AzRoleAssignmentCreate(sub, identityPrincipalID, cosmosDBName, resourceGroup, cosmosDBResourceID) ==
    <<"az", "cosmosdb", "sql", "role", "assignment", "create",
      "--account-name", cosmosDBName,
      "--resource-group", resourceGroup,
      "--role-definition-id",
      CosmosDBResourceID(sub, cosmosDBName, resourceGroup)
          \o "/sqlRoleDefinitions/00000000-0000-0000-0000-000000000002",
      "--principal-id", identityPrincipalID,
      "--scope", cosmosDBResourceID,
      "--subscription", sub>>

assignRoleToCosmosDB(s, f, sub, identityPrincipalID, cosmosDBName, resourceGroup) ==
    LET s1 == getCosmosDBResourceID(s, f, sub, cosmosDBName, resourceGroup)
    IN  IF s1.err # "" THEN s1
        ELSE LET s2 == Exec(s1, AzRoleAssignmentCreate(sub, identityPrincipalID, cosmosDBName,
                                                       resourceGroup, s1.out))
             IN  IF Failed(s2, f) THEN Fail(s2, ErrExternal) ELSE s2

\* A BindCosmosDB that resolves the principal before it validates the account.
BindCosmosDBPrincipalFirst(s, f, sub, name, resourceGroup, identityName, identityResourceGroup) ==
    LET s1 == getIdentityPrincipalID(s, f, sub, identityName, identityResourceGroup)
    IN  IF s1.err # "" THEN s1
        ELSE LET s2 == validateCosmosDBAccount(s1, f, sub, name, resourceGroup)
             IN  IF s2.err # "" THEN s2
                 ELSE assignRoleToCosmosDB(s2, f, sub, s1.out, name, resourceGroup)

\* BindCosmosDB, as called by assign-role cosmosdb.
BindCosmosDB(s, f, sub, name, resourceGroup, identityName, identityResourceGroup) ==
    LET s1 == validateCosmosDBAccount(s, f, sub, name, resourceGroup)
    IN  IF s1.err # "" THEN s1
        ELSE LET s2 == getIdentityPrincipalID(s1, f, sub, identityName, identityResourceGroup)
             IN  IF s2.err # "" THEN s2
                 ELSE assignRoleToCosmosDB(s2, f, sub, s2.out, name, resourceGroup)

AzCosmosDatabaseList(sub, name, resourceGroup) ==
    <<"az", "cosmosdb", "sql", "database", "list", "--account-name", name,
      "--resource-group", resourceGroup, "--subscription", sub,
      "--query", "[0].name", "--output", "tsv">>

AzCosmosContainerList(sub, name, dbName, resourceGroup) ==
    <<"az", "cosmosdb", "sql", "container", "list", "--account-name", name,
      "--database-name", dbName, "--resource-group", resourceGroup,
      "--subscription", sub, "--query", "[0].name", "--output", "tsv">>

ErrNoDatabase == "no SQL database found in account"

\* getDBAndContainerInfo: db is the name of the first database of the account,
\* "" when it has none; out is "db/container" when both lookups succeed.
getDBAndContainerInfo(s, f, sub, name, resourceGroup, db) ==
    LET s1 == Exec(s, AzCosmosDatabaseList(sub, name, resourceGroup))
    IN  IF Failed(s1, f) THEN [Fail(s1, ErrExternal) EXCEPT !.out = ""]
        ELSE IF db = "" THEN [Fail(s1, ErrNoDatabase) EXCEPT !.out = ""]
        ELSE LET s2 == Exec(s1, AzCosmosContainerList(sub, name, db, resourceGroup))
             IN  IF Failed(s2, f) THEN [Fail(s2, ErrExternal) EXCEPT !.out = ""]
                 ELSE [s2 EXCEPT !.out = db \o "/container1"]

ErrNoIdentity == "no workload identity configured"

\* A BindCosmosDB that returns the error of its closing lookup.
BindCosmosDBStoredStrict(s, f, sub, name, resourceGroup, db) ==
    LET cfg == LoadConfig(s.file)
    IN  IF cfg.IdentityName = "" THEN Fail(s, ErrNoIdentity)
        ELSE
        LET s1 == validateCosmosDBAccount(s, f, sub, name, resourceGroup)
        IN  IF s1.err # "" THEN s1
            ELSE
            LET s2 == getIdentityPrincipalID(s1, f, sub, cfg.IdentityName, cfg.ResourceGroup)
            IN  IF s2.err # "" THEN s2
                ELSE
                LET s3 == assignRoleToCosmosDB(s2, f, sub, s2.out, name, resourceGroup)
                IN  IF s3.err # "" THEN s3
                    ELSE getDBAndContainerInfo(s3, f, sub, name, resourceGroup, db)

\* BindCosmosDB, as called by bind cosmosdb: the identity is the stored one,
\* and the error of the closing lookup is dropped.
BindCosmosDBStored(s, f, sub, name, resourceGroup, db) ==
    LET cfg == LoadConfig(s.file)
    IN  IF cfg.IdentityName = "" THEN Fail(s, ErrNoIdentity)
        ELSE
        LET s1 == validateCosmosDBAccount(s, f, sub, name, resourceGroup)
        IN  IF s1.err # "" THEN s1
            ELSE
            LET s2 == getIdentityPrincipalID(s1, f, sub, cfg.IdentityName, cfg.ResourceGroup)
            IN  IF s2.err # "" THEN s2
                ELSE
                LET s3 == assignRoleToCosmosDB(s2, f, sub, s2.out, name, resourceGroup)
                IN  IF s3.err # "" THEN s3
                    ELSE [getDBAndContainerInfo(s3, f, sub, name, resourceGroup, db)
                            EXCEPT !.err = ""]

-----------------------------------------------------------------------------
(* package cmd: the command handlers.                                      *)

ErrNameRequired == "--name is required"
ErrResourceGroupRequired == "--resource-group is required"
ErrFromRequired == "--from flag is required"

\* config.GetAzureCredential followed by the subscription check of a handler.
Precheck(s, credOK) ==
    IF ~credOK THEN Fail(s, ErrCredential)
    ELSE IF LoadConfig(s.file).SubscriptionID = "" THEN Fail(s, ErrNoSubscription)
    ELSE s

\* strings.HasPrefix(tok, "--") on the tokens of the model.
DashDash ==
    {"--name", "--resource-group", "--location", "--node-count", "--node-vm-size",
     "--skip-identity-creation", "--zones", "--tags"}
HasPrefixDashDash(tok) == tok \in DashDash

\* strconv.Atoi on the tokens of the model: <<n>> for a numeral, <<>> for an error.
Atoi(tok) ==
    IF \E n \in 0..9 : Digits[n + 1] = tok
    THEN <<CHOOSE n \in 0..9 : Digits[n + 1] = tok>>
    ELSE IF tok = "-1" THEN <<-1>>
    ELSE <<>>

\* A value test that takes the next token whatever it is.
HasValueAny(args, i) == i + 1 <= Len(args)

HasValue(args, i) == i + 1 <= Len(args) /\ ~HasPrefixDashDash(args[i + 1])

RECURSIVE ScanArgs(_, _, _)
\* The argument loop of cluster create; p holds the variables it assigns.
ScanArgs(args, i, p) ==
    IF i > Len(args) THEN p
    ELSE
    LET arg == args[i]
        val == args[i + 1]
    IN  IF arg = "--name" \/ arg = "-n"
        THEN IF HasValue(args, i) THEN ScanArgs(args, i + 2, [p EXCEPT !.name = val])
             ELSE ScanArgs(args, i + 1, p)
        ELSE IF arg = "--resource-group" \/ arg = "-g"
        THEN IF HasValue(args, i) THEN ScanArgs(args, i + 2, [p EXCEPT !.resourceGroup = val])
             ELSE ScanArgs(args, i + 1, p)
        ELSE IF arg = "--location" \/ arg = "-l"
        THEN IF HasValue(args, i) THEN ScanArgs(args, i + 2, [p EXCEPT !.location = val])
             ELSE ScanArgs(args, i + 1, p)
        ELSE IF arg = "--node-count"
        THEN IF HasValue(args, i)
             THEN ScanArgs(args, i + 2,
                           IF Atoi(val) # <<>> THEN [p EXCEPT !.nodeCount = Atoi(val)[1]] ELSE p)
             ELSE ScanArgs(args, i + 1, p)
        ELSE IF arg = "--node-vm-size"
        THEN IF HasValue(args, i) THEN ScanArgs(args, i + 2, [p EXCEPT !.nodeVMSize = val])
             ELSE ScanArgs(args, i + 1, p)
        ELSE IF HasPrefixDashDash(arg)
        THEN IF HasValue(args, i)
             THEN ScanArgs(args, i + 2, [p EXCEPT !.customArgs = (arg :> val) @@ @])
             ELSE ScanArgs(args, i + 1, [p EXCEPT !.customArgs = (arg :> "") @@ @])
        ELSE ScanArgs(args, i + 1, p)

RECURSIVE ReferenceScan(_, _, _)
\* The argument loop of TestCreateCommandCustomArgParsing; p holds the
\* variables it assigns, skipIdentityCreation among them.
ReferenceScan(args, i, p) ==
    IF i > Len(args) THEN p
    ELSE
    LET arg == args[i]
        val == args[i + 1]
    IN  IF arg = "--name" \/ arg = "-n"
        THEN IF HasValue(args, i) THEN ReferenceScan(args, i + 2, [p EXCEPT !.name = val])
             ELSE ReferenceScan(args, i + 1, p)
        ELSE IF arg = "--resource-group" \/ arg = "-g"
        THEN IF HasValue(args, i)
             THEN ReferenceScan(args, i + 2, [p EXCEPT !.resourceGroup = val])
             ELSE ReferenceScan(args, i + 1, p)
        ELSE IF arg = "--location" \/ arg = "-l"
        THEN IF HasValue(args, i) THEN ReferenceScan(args, i + 2, [p EXCEPT !.location = val])
             ELSE ReferenceScan(args, i + 1, p)
        ELSE IF arg = "--skip-identity-creation"
        THEN ReferenceScan(args, i + 1, [p EXCEPT !.skipIdentityCreation = TRUE])
        ELSE IF arg = "--node-count"
        THEN IF HasValue(args, i)
             THEN ReferenceScan(args, i + 2,
                                IF Atoi(val) # <<>> THEN [p EXCEPT !.nodeCount = Atoi(val)[1]]
                                ELSE p)
             ELSE ReferenceScan(args, i + 1, p)
        ELSE IF arg = "--node-vm-size"
        THEN IF HasValue(args, i) THEN ReferenceScan(args, i + 2, [p EXCEPT !.nodeVMSize = val])
             ELSE ReferenceScan(args, i + 1, p)
        ELSE IF HasPrefixDashDash(arg)
        THEN IF HasValue(args, i)
             THEN ReferenceScan(args, i + 2, [p EXCEPT !.customArgs = (arg :> val) @@ @])
             ELSE ReferenceScan(args, i + 1, [p EXCEPT !.customArgs = (arg :> "") @@ @])
        ELSE ReferenceScan(args, i + 1, p)

\* The orders in which a range over the keys of a map can visit them.
KeyOrders(m) ==
    {q \in [1..Cardinality(DOMAIN m) -> DOMAIN m] :
        \A i, j \in DOMAIN q : i # j => q[i] # q[j]}

RECURSIVE AdditionalArgs(_, _, _)
\* additionalArgs as appended while ranging over customArgs in the order q.
AdditionalArgs(m, q, i) ==
    IF i > Len(q) THEN <<>>
    ELSE (IF m[q[i]] = "" THEN <<q[i]>> ELSE <<q[i], m[q[i]]>>) \o AdditionalArgs(m, q, i + 1)

\* A cluster create that replaces only a negative node count.
ClusterCreateCommandZeroNodes(s, f, credOK, nameFlag, resourceGroupFlag, args, q) ==
    LET p == ScanArgs(args, 1,
                 [name |-> nameFlag, resourceGroup |-> resourceGroupFlag,
                  location |-> "eastus", nodeCount |-> 1,
                  nodeVMSize |-> "Standard_DS2_v2", customArgs |-> <<>>])
    IN  IF p.name = "" THEN Fail(s, ErrNameRequired)
        ELSE IF p.resourceGroup = "" THEN Fail(s, ErrResourceGroupRequired)
        ELSE
        LET s0 == Precheck(s, credOK)
            sub == LoadConfig(s.file).SubscriptionID
            location == IF p.location = "" THEN "eastus" ELSE p.location
            nodeCount == IF p.nodeCount < 0 THEN 1 ELSE p.nodeCount
            nodeVMSize == IF p.nodeVMSize = "" THEN "Standard_DS2_v2" ELSE p.nodeVMSize
        IN  IF s0.err # "" THEN s0
            ELSE
            LET s1 == CreateCluster(s0, f, sub, p.resourceGroup, p.name, location,
                                    nodeCount, nodeVMSize, AdditionalArgs(p.customArgs, q, 1))
            IN  IF s1.err # "" THEN s1 ELSE DeploySpinOperator(s1, f, sub)

\* cluster create.  The flag values are those cobra has parsed; args are the
\* arguments left for RunE, q the iteration order over customArgs.
ClusterCreateCommand(s, f, credOK, nameFlag, resourceGroupFlag, args, q) ==
    LET p == ScanArgs(args, 1,
                 [name |-> nameFlag, resourceGroup |-> resourceGroupFlag,
                  location |-> "eastus", nodeCount |-> 1,
                  nodeVMSize |-> "Standard_DS2_v2", customArgs |-> <<>>])
    IN  IF p.name = "" THEN Fail(s, ErrNameRequired)
        ELSE IF p.resourceGroup = "" THEN Fail(s, ErrResourceGroupRequired)
        ELSE
        LET s0 == Precheck(s, credOK)
            sub == LoadConfig(s.file).SubscriptionID
            location == IF p.location = "" THEN "eastus" ELSE p.location
            nodeCount == IF p.nodeCount <= 0 THEN 1 ELSE p.nodeCount
            nodeVMSize == IF p.nodeVMSize = "" THEN "Standard_DS2_v2" ELSE p.nodeVMSize
        IN  IF s0.err # "" THEN s0
            ELSE
            LET s1 == CreateCluster(s0, f, sub, p.resourceGroup, p.name, location,
                                    nodeCount, nodeVMSize, AdditionalArgs(p.customArgs, q, 1))
            IN  IF s1.err # "" THEN s1 ELSE DeploySpinOperator(s1, f, sub)

\* cluster use
ClusterUseCommand(s, f, credOK, name, resourceGroupFlag, installSpinOperator) ==
    LET s0 == Precheck(s, credOK)
        cfg == LoadConfig(s.file)
        resourceGroup == IF resourceGroupFlag = "" THEN cfg.ResourceGroup ELSE resourceGroupFlag
    IN  IF s0.err # "" THEN s0
        ELSE IF resourceGroup = "" THEN Fail(s0, ErrResourceGroupRequired)
        ELSE
        LET s1 == UseCluster(s0, f, cfg.SubscriptionID, resourceGroup, name)
        IN  IF s1.err # "" THEN s1
            ELSE IF installSpinOperator THEN DeploySpinOperator(s1, f, cfg.SubscriptionID)
            ELSE s1

\* A cluster check-identity that enables the feature whatever the check says.
ClusterCheckIdentityCommandAlways(s, f, credOK) ==
    LET s0 == Precheck(s, credOK)
        sub == LoadConfig(s.file).SubscriptionID
    IN  IF s0.err # "" THEN s0
        ELSE
        LET s1 == CheckWorkloadIdentity(s0, f, sub)
        IN  IF s1.err # "" THEN s1
            ELSE EnableWorkloadIdentity(s1, f, sub)

\* cluster check-identity
ClusterCheckIdentityCommand(s, f, credOK) ==
    LET s0 == Precheck(s, credOK)
        sub == LoadConfig(s.file).SubscriptionID
    IN  IF s0.err # "" THEN s0
        ELSE
        LET s1 == CheckWorkloadIdentity(s0, f, sub)
        IN  IF s1.err # "" THEN s1
            ELSE IF s1.ret THEN s1
            ELSE EnableWorkloadIdentity(s1, f, sub)

\* cluster install-spin-operator
ClusterInstallSpinOperatorCommand(s, f, credOK) ==
    LET s0 == Precheck(s, credOK)
    IN  IF s0.err # "" THEN s0
        ELSE DeploySpinOperator(s0, f, LoadConfig(s.file).SubscriptionID)

\* identity create
IdentityCreateCommand(s, f, credOK, nameFlag, resourceGroupFlag, skipServiceAccount) ==
    LET name == IF nameFlag = "" THEN "workload-identity" ELSE nameFlag
        cfg == LoadConfig(s.file)
        resourceGroup == IF resourceGroupFlag = "" THEN cfg.ResourceGroup ELSE resourceGroupFlag
    IN  IF cfg.SubscriptionID = "" THEN Fail(s, ErrNoSubscription)
        ELSE IF resourceGroup = "" THEN Fail(s, ErrResourceGroupRequired)
        ELSE IF ~credOK THEN Fail(s, ErrCredential)
        ELSE CreateIdentity(s, f, cfg.SubscriptionID, name, resourceGroup, ~skipServiceAccount)

\* identity use
IdentityUseCommand(s, f, credOK, name, resourceGroupFlag, createServiceAccount) ==
    LET cfg == LoadConfig(s.file)
        resourceGroup == IF resourceGroupFlag = "" THEN cfg.ResourceGroup ELSE resourceGroupFlag
    IN  IF cfg.SubscriptionID = "" THEN Fail(s, ErrNoSubscription)
        ELSE IF resourceGroup = "" THEN Fail(s, ErrResourceGroupRequired)
        ELSE IF ~credOK THEN Fail(s, ErrCredential)
        ELSE UseIdentity(s, f, cfg.SubscriptionID, name, resourceGroup, createServiceAccount)

\* deploy, as in cmd/deploy.go: no flag sets the identity variable.
DeployCommand(s, f, credOK, from, statErr) ==
    LET s0 == Precheck(s, credOK)
        cfg == LoadConfig(s.file)
        identity == ""
    IN  IF s0.err # "" THEN s0
        ELSE IF from = "" THEN Fail(s0, ErrFromRequired)
        ELSE IF cfg.IdentityName = "" THEN Fail(s0, ErrNoIdentity)
        ELSE Deploy(s0, f, cfg.SubscriptionID, from, statErr, identity)

\* deploy, as in the variant of the command that has the --identity flag.
DeployIdentityCommand(s, f, credOK, from, statErr, identityFlag) ==
    LET s0 == Precheck(s, credOK)
        cfg == LoadConfig(s.file)
        identity == IF identityFlag = "" THEN "workload-identity" ELSE identityFlag
    IN  IF s0.err # "" THEN s0
        ELSE IF from = "" THEN Fail(s0, ErrFromRequired)
        ELSE Deploy(s0, f, cfg.SubscriptionID, from, statErr, identity)

ErrCosmosResourceGroup == "resource group for CosmosDB not set"
ErrIdentityNotSet == "identity name not set"

\* An assign-role cosmosdb that goes on without an identity name.
AssignRoleCosmosDBCommandUnchecked(s, f, credOK, name, resourceGroupFlag, identityFlag, identityResourceGroupFlag) ==
    LET s0 == Precheck(s, credOK)
        cfg == LoadConfig(s.file)
        resourceGroup == IF resourceGroupFlag = "" THEN cfg.ResourceGroup ELSE resourceGroupFlag
        identityResourceGroup ==
            IF identityResourceGroupFlag = "" THEN resourceGroup ELSE identityResourceGroupFlag
        identityName == IF identityFlag = "" THEN cfg.IdentityName ELSE identityFlag
    IN  IF s0.err # "" THEN s0
        ELSE IF resourceGroup = "" THEN Fail(s0, ErrCosmosResourceGroup)
        ELSE BindCosmosDB(s0, f, cfg.SubscriptionID, name, resourceGroup,
                          identityName, identityResourceGroup)

\* assign-role cosmosdb: flags left out fall back to the store.
\* An assign-role cosmosdb that prefers the stored identity to the flag.
AssignRoleCosmosDBCommandStoredFirst(s, f, credOK, name, resourceGroupFlag, identityFlag, identityResourceGroupFlag) ==
    LET s0 == Precheck(s, credOK)
        cfg == LoadConfig(s.file)
        resourceGroup == IF resourceGroupFlag = "" THEN cfg.ResourceGroup ELSE resourceGroupFlag
        identityResourceGroup ==
            IF identityResourceGroupFlag = "" THEN resourceGroup ELSE identityResourceGroupFlag
        identityName == IF cfg.IdentityName = "" THEN identityFlag ELSE cfg.IdentityName
    IN  IF s0.err # "" THEN s0
        ELSE IF resourceGroup = "" THEN Fail(s0, ErrCosmosResourceGroup)
        ELSE IF identityName = "" THEN Fail(s0, ErrIdentityNotSet)
        ELSE BindCosmosDB(s0, f, cfg.SubscriptionID, name, resourceGroup,
                          identityName, identityResourceGroup)

AssignRoleCosmosDBCommand(s, f, credOK, name, resourceGroupFlag, identityFlag, identityResourceGroupFlag) ==
    LET s0 == Precheck(s, credOK)
        cfg == LoadConfig(s.file)
        resourceGroup == IF resourceGroupFlag = "" THEN cfg.ResourceGroup ELSE resourceGroupFlag
        identityResourceGroup ==
            IF identityResourceGroupFlag = "" THEN resourceGroup ELSE identityResourceGroupFlag
        identityName == IF identityFlag = "" THEN cfg.IdentityName ELSE identityFlag
    IN  IF s0.err # "" THEN s0
        ELSE IF resourceGroup = "" THEN Fail(s0, ErrCosmosResourceGroup)
        ELSE IF identityName = "" THEN Fail(s0, ErrIdentityNotSet)
        ELSE BindCosmosDB(s0, f, cfg.SubscriptionID, name, resourceGroup,
                          identityName, identityResourceGroup)

\* bind cosmosdb: the earlier form of the command.
BindCosmosDBCommand(s, f, credOK, name, resourceGroup, db) ==
    LET s0 == Precheck(s, credOK)
    IN  IF s0.err # "" THEN s0
        ELSE BindCosmosDBStored(s0, f, LoadConfig(s.file).SubscriptionID, name, resourceGroup, db)

\* login
LoginCommand(s, f, subscriptionFlag, tenantFlag) ==
    LET s1 == Exec(s, <<"az", "login">>)
    IN  IF Failed(s1, f) THEN Fail(s1, ErrExternal)
        ELSE
        LET s2 == IF subscriptionFlag # ""
                  THEN Exec(s1, <<"az", "account", "set", "--subscription", subscriptionFlag>>)
                  ELSE Exec(s1, <<"az", "account", "show", "--query", "id", "--output", "tsv">>)
            subscriptionID == IF subscriptionFlag # "" THEN subscriptionFlag ELSE Sub
        IN  IF Failed(s2, f) THEN Fail(s2, ErrExternal)
            ELSE
            LET s3 == IF tenantFlag # "" THEN s2
                      ELSE Exec(s2, <<"az", "account", "show", "--query", "tenantId", "--output", "tsv">>)
                tenantID == IF tenantFlag # "" THEN tenantFlag ELSE Tenant
            IN  IF tenantFlag = "" /\ Failed(s3, f) THEN Fail(s3, ErrExternal)
                ELSE
                LET cfg == LoadConfig(s3.file)
                    s4 == [s3 EXCEPT !.file = SaveConfig([cfg EXCEPT !.SubscriptionID = subscriptionID,
                                                                    !.TenantID = tenantID])]
                    s5 == Exec(s4, <<"az", "account", "list", "--output", "none">>)
                IN  IF Failed(s5, f) THEN Fail(s5, ErrExternal) ELSE s5

\* A logout that clears the store whatever az logout answered.
LogoutCommandForgiving(s, f) ==
    LET s1 == Exec(s, <<"az", "logout">>)
        cfg == LoadConfig(s1.file)
    IN  [s1 EXCEPT !.file = SaveConfig([cfg EXCEPT !.SubscriptionID = "", !.TenantID = ""])]

\* A logout that writes an empty record.
LogoutCommandClearsAll(s, f) ==
    LET s1 == Exec(s, <<"az", "logout">>)
    IN  IF Failed(s1, f) THEN Fail(s1, ErrExternal)
        ELSE [s1 EXCEPT !.file = SaveConfig(Config)]

\* logout
LogoutCommand(s, f) ==
    LET s1 == Exec(s, <<"az", "logout">>)
    IN  IF Failed(s1, f) THEN Fail(s1, ErrExternal)
        ELSE LET cfg == LoadConfig(s1.file)
             IN  [s1 EXCEPT !.file = SaveConfig([cfg EXCEPT !.SubscriptionID = "", !.TenantID = ""])]

\* A reset that clears the selection and keeps the login.
ConfigResetCommandKeepsLogin(s, yes, response) ==
    IF ~yes /\ response # "y" /\ response # "Y" THEN s
    ELSE [s EXCEPT !.file = SaveConfig([Config EXCEPT
                                !.SubscriptionID = LoadConfig(s.file).SubscriptionID,
                                !.TenantID = LoadConfig(s.file).TenantID])]

\* config reset: without --yes the answer read from the terminal decides.
ConfigResetCommand(s, yes, response) ==
    IF ~yes /\ response # "y" /\ response # "Y" THEN s
    ELSE [s EXCEPT !.file = SaveConfig(Config)]

\* config show
ConfigShowCommand(s) == s

-----------------------------------------------------------------------------
(* The state machine: one action per command handler.                      *)

\* The inputs of a run; extra is the identity resource group of assign-role
\* cosmosdb and the first database of the account of bind cosmosdb.
NoInput ==
    [name |-> "", rg |-> "", id |-> "", flag |-> FALSE, args |-> <<>>, stat |-> "",
     extra |-> ""]

\* No handler has run.
NoRun ==
    [op |-> "none", in |-> NoInput, pre |-> <<>>, preSA |-> {}, log |-> <<>>,
     failed |-> 0, err |-> "", ret |-> FALSE]

\* The operations whose repetition is examined: the run before the last one is
\* remembered when it was one of these.
TwoCallOps == {"CreateServiceAccount", "cluster check-identity"}

\* The runs a later run is compared with: those of TwoCallOps, and the
\* identity commands that have persisted an identity.
Remembered(r) ==
    \/ r.op \in TwoCallOps
    \/ r.op \in {"identity create", "identity use"} /\ r.err = "" /\ r.log # <<>>

\* The longest session explored, in handler runs.
MaxOps == 2

\* The codec takes no part in a session.
CodecIdle ==
    /\ cfgIn = <<>>
    /\ disk = <<>>
    /\ cfgOut = <<>>
    /\ jpc = "new"

\* The variables of the scan loop as the test declares them: zero values.
ZeroArgs ==
    [name |-> "", resourceGroup |-> "", location |-> "", nodeCount |-> 0,
     nodeVMSize |-> "", customArgs |-> <<>>]

\* No argument list is being scanned.
ScanIdle ==
    /\ argv = <<>>
    /\ start = ZeroArgs
    /\ parsed = <<>>
    /\ reference = <<>>

\* The number of invocations of the CLI running at the same time.
NProcs == 2
Procs == 1..NProcs

\* An invocation that has not been given its command.
NoJob == [op |-> "none", name |-> "", rg |-> "", id |-> ""]

\* No invocation runs next to the session.
RaceIdle ==
    /\ pc = [p \in Procs |-> "idle"]
    /\ job = [p \in Procs |-> NoJob]
    /\ loaded = [p \in Procs |-> <<>>]
    /\ staleBy = [p \in Procs |-> {}]
    /\ lastWriter = <<>>

\* No CreateCluster is looked at step by step.
SpinIdle ==
    /\ cc = "start"
    /\ azOK = FALSE
    /\ sp = "none"
    /\ frame = 0
    /\ tick = FALSE
    /\ closes = 0
    /\ printed = 0

\* The stores a session starts from: none (a first run), the store after login,
\* and the store after login and cluster use.
InitialFiles ==
    {<<>>,
     SaveConfig([Config EXCEPT !.SubscriptionID = Sub, !.TenantID = Tenant]),
     SaveConfig([Config EXCEPT !.SubscriptionID = Sub, !.TenantID = Tenant,
                               !.ResourceGroup = "rg1", !.ClusterName = "old"])}

Init ==
    /\ file \in InitialFiles
    /\ wiOn = {}
    /\ sa = {}
    /\ nops = 0
    /\ last = NoRun
    /\ prev = NoRun
    /\ CodecIdle
    /\ ScanIdle
    /\ RaceIdle
    /\ SpinIdle

Begin == Start(file, wiOn, sa)

\* The environment of a run: e = -1 when no Azure credential can be built,
\* e = 0 when nothing fails, e = k when the k-th external command exits non-zero.
CredOK(e) == e # -1

\* The handler has returned: its effects and what it did are recorded.
Done(op, in, e, s) ==
    /\ nops < MaxOps
    /\ nops' = nops + 1
    /\ file' = s.file
    /\ wiOn' = s.wiOn
    /\ sa' = s.sa
    /\ UNCHANGED <<codecVars, scanVars, spinVars, raceVars>>
    /\ prev' = IF Remembered(last) THEN last ELSE NoRun
    /\ last' = [op |-> op, in |-> in, pre |-> file, preSA |-> sa, log |-> s.log,
                failed |-> IF e \in 1..Len(s.log) THEN e ELSE 0,
                err |-> s.err, ret |-> s.ret]

\* The external commands of an operator installation.
NSteps == Len(OperatorSteps(Sub, Config))

\* Where a run that ends with an operator installation is made to fail: the
\* credential, nothing, its first commands, the last command of the installation.
InstallFailPoints(before) == (-1..(before + 2)) \cup {before + NSteps}

\* The arguments left for RunE of cluster create: none, a flag with several
\* values, node counts that are unparsable, zero, negative and positive, the
\* other recognised flags, and two flags of az of which one has no value.
ArgLists ==
    {<<>>,
     <<"--zones", "1", "2">>,
     <<"--node-count", "many">>,
     <<"--node-count", "0">>,
     <<"--node-count", "-1">>,
     <<"--node-count", "3">>,
     <<"--location", "westus", "--node-vm-size", "Standard_D4s_v3">>,
     <<"--tags", "--zones", "1">>}
Paths == {"", "app.yaml"}
Responses == {"y", "Y", "n", ""}

Login ==
    \E e \in 0..4, subscriptionFlag \in {"", Sub}, tenantFlag \in {"", Tenant} :
        Done("login", [NoInput EXCEPT !.name = subscriptionFlag, !.id = tenantFlag], e,
             LoginCommand(Begin, e, subscriptionFlag, tenantFlag))

Logout ==
    \E e \in 0..1 :
        Done("logout", NoInput, e, LogoutCommand(Begin, e))

\* The argument lists run with every name, resource group and failure point;
\* the others are run with one name and resource group, failing nowhere or at
\* the create command.
DeepArgLists == {<<>>, <<"--zones", "1", "2">>}

ClusterCreate ==
    \E name \in Names \cup {""}, resourceGroup \in RGs \cup {""}, args \in ArgLists :
        \E e \in IF name = "" \/ resourceGroup = "" THEN {0}
                 ELSE IF args \in DeepArgLists THEN InstallFailPoints(1)
                 ELSE 0..1 :
            \E q \in KeyOrders(ScanArgs(args, 1, [name |-> "", resourceGroup |-> "",
                          location |-> "", nodeCount |-> 0, nodeVMSize |-> "",
                          customArgs |-> <<>>]).customArgs) :
                /\ args \notin DeepArgLists => name = "demo" /\ resourceGroup = "rg1"
                /\ Done("cluster create",
                        [NoInput EXCEPT !.name = name, !.rg = resourceGroup, !.args = args], e,
                        ClusterCreateCommand(Begin, e, CredOK(e), name, resourceGroup, args, q))

ClusterUse ==
    \E name \in Names, resourceGroup \in RGs \cup {""}, installSpinOperator \in BOOLEAN :
        \E e \in IF installSpinOperator THEN InstallFailPoints(1) ELSE -1..1 :
            Done("cluster use",
                 [NoInput EXCEPT !.name = name, !.rg = resourceGroup,
                                 !.flag = installSpinOperator], e,
                 ClusterUseCommand(Begin, e, CredOK(e), name, resourceGroup, installSpinOperator))

ClusterCheckIdentity ==
    \E e \in -1..2 :
        Done("cluster check-identity", NoInput, e,
             ClusterCheckIdentityCommand(Begin, e, CredOK(e)))

ClusterInstallSpinOperator ==
    \E e \in -1..NSteps :
        Done("cluster install-spin-operator", NoInput, e,
             ClusterInstallSpinOperatorCommand(Begin, e, CredOK(e)))

IdentityCreate ==
    \E name \in {"", "id2"}, resourceGroup \in {"", "rg2"}, skipServiceAccount \in BOOLEAN :
        \E e \in IF skipServiceAccount THEN -1..2 ELSE -1..8 :
            Done("identity create",
                 [NoInput EXCEPT !.id = name, !.rg = resourceGroup,
                                 !.flag = skipServiceAccount], e,
                 IdentityCreateCommand(Begin, e, CredOK(e), name, resourceGroup, skipServiceAccount))

IdentityUse ==
    \E name \in Ids, resourceGroup \in {"", "rg2"}, createServiceAccount \in BOOLEAN :
        \E e \in IF createServiceAccount THEN -1..7 ELSE -1..1 :
            Done("identity use",
                 [NoInput EXCEPT !.id = name, !.rg = resourceGroup,
                                 !.flag = createServiceAccount], e,
                 IdentityUseCommand(Begin, e, CredOK(e), name, resourceGroup, createServiceAccount))

DeployApp ==
    \E from \in Paths, statErr \in StatErrors :
        \E e \in IF from = "" \/ statErr = "ENOENT" THEN -1..0 ELSE -1..4 :
            Done("deploy", [NoInput EXCEPT !.name = from, !.stat = statErr], e,
                 DeployCommand(Begin, e, CredOK(e), from, statErr))

DeployAppIdentity ==
    \E from \in Paths, statErr \in StatErrors, identity \in {"", "id2"} :
        \E e \in IF from = "" \/ statErr = "ENOENT" THEN -1..0 ELSE -1..4 :
            Done("deploy --identity",
                 [NoInput EXCEPT !.name = from, !.stat = statErr, !.id = identity], e,
                 DeployIdentityCommand(Begin, e, CredOK(e), from, statErr, identity))

ConfigReset ==
    \E yes \in BOOLEAN, response \in Responses :
        Done("config reset", [NoInput EXCEPT !.flag = yes, !.name = response], 0,
             ConfigResetCommand(Begin, yes, response))

ConfigShow ==
    Done("config show", NoInput, 0, ConfigShowCommand(Begin))

AssignRoleCosmosDB ==
    \E resourceGroup \in {"", "rg2"}, identity \in {"", "id2"},
       identityResourceGroup \in {"", "rg1"} :
        \E e \in IF identity = "" THEN -1..1 ELSE -1..5 :
            Done("assign-role cosmosdb",
                 [NoInput EXCEPT !.name = "cosmos1", !.rg = resourceGroup, !.id = identity,
                                 !.extra = identityResourceGroup], e,
                 AssignRoleCosmosDBCommand(Begin, e, CredOK(e), "cosmos1", resourceGroup,
                                           identity, identityResourceGroup))

BindCosmos ==
    \E db \in {"", "db1"}, e \in -1..7 :
        Done("bind cosmosdb", [NoInput EXCEPT !.name = "cosmos1", !.rg = "rg2", !.extra = db], e,
             BindCosmosDBCommand(Begin, e, CredOK(e), "cosmos1", "rg2", db))

\* A direct call of Service.CreateServiceAccount by a logged-in caller.
ServiceAccountCall ==
    \E e \in 0..4, identityName \in Ids :
        /\ LoadConfig(file).SubscriptionID # ""
        /\ Done("CreateServiceAccount", [NoInput EXCEPT !.id = identityName], e,
                CreateServiceAccount(Begin, e, LoadConfig(file).SubscriptionID, identityName))

Next ==
    \/ Login
    \/ Logout
    \/ ClusterCreate
    \/ ClusterUse
    \/ ClusterCheckIdentity
    \/ ClusterInstallSpinOperator
    \/ IdentityCreate
    \/ IdentityUse
    \/ DeployApp
    \/ DeployAppIdentity
    \/ ConfigReset
    \/ ConfigShow
    \/ AssignRoleCosmosDB
    \/ BindCosmos
    \/ ServiceAccountCall

Spec == Init /\ [][Next]_vars

-----------------------------------------------------------------------------
(* The JSON codec of the store.  A field value is a sequence of characters *)
(* of the alphabet Chars; the file is the sequence of members MarshalIndent *)
(* writes, each value a sequence of output characters.                     *)

\* "n": a letter; "quote", "bs" (backslash), "nl" (newline), "lt" (<): the
\* characters the encoder escapes; "xFF": a byte that is not valid UTF-8;
\* "uFFFD": the replacement character U+FFFD.
Chars == {"n", "quote", "bs", "nl", "lt", "xFF", "uFFFD"}

\* The longest field value of the codec check.
MaxStrLen == 2

Fields ==
    <<"SubscriptionID", "TenantID", "ResourceGroup", "ClusterName", "Location",
      "IdentityName", "WorkspaceLocation">>

\* The json tags of the struct.
JSONKey ==
    [SubscriptionID |-> "subscriptionId", TenantID |-> "tenantId",
     ResourceGroup |-> "resourceGroup", ClusterName |-> "clusterName",
     Location |-> "location", IdentityName |-> "workloadIdentity",
     WorkspaceLocation |-> "workspaceLocation"]

\* An encoder that writes the escape of > for <.
EncodeCharWrongEscape(c) ==
    CASE c = "quote" -> <<"bs", "quote">>
      [] c = "bs" -> <<"bs", "bs">>
      [] c = "nl" -> <<"bs", "n">>
      [] c = "lt" -> <<"bs", "u", "0", "0", "3", "e">>
      [] c = "xFF" -> <<"bs", "u", "f", "f", "f", "d">>
      [] OTHER -> <<c>>

\* encoding/json, string encoding with HTML escaping: an invalid byte is
\* written as the escape of U+FFFD.
EncodeChar(c) ==
    CASE c = "quote" -> <<"bs", "quote">>
      [] c = "bs" -> <<"bs", "bs">>
      [] c = "nl" -> <<"bs", "n">>
      [] c = "lt" -> <<"bs", "u", "0", "0", "3", "c">>
      [] c = "xFF" -> <<"bs", "u", "f", "f", "f", "d">>
      [] OTHER -> <<c>>

RECURSIVE EncodeString(_)
EncodeString(str) ==
    IF str = <<>> THEN <<>> ELSE EncodeChar(Head(str)) \o EncodeString(Tail(str))

RECURSIVE DecodeString(_)
\* encoding/json, unquote: escapes are undone, other characters are copied.
DecodeString(text) ==
    IF text = <<>> THEN <<>>
    ELSE IF Head(text) = "bs"
    THEN IF text[2] = "u"
         THEN <<(IF SubSeq(text, 3, 6) = <<"0", "0", "3", "c">> THEN "lt" ELSE "uFFFD")>>
                  \o DecodeString(SubSeq(text, 7, Len(text)))
         ELSE <<(CASE text[2] = "quote" -> "quote"
                   [] text[2] = "bs" -> "bs"
                   [] text[2] = "n" -> "nl"
                   [] OTHER -> "uFFFD")>>
                  \o DecodeString(SubSeq(text, 3, Len(text)))
    ELSE <<(IF Head(text) = "xFF" THEN "uFFFD" ELSE Head(text))>> \o DecodeString(Tail(text))

\* json.MarshalIndent(config): one member per field, in declaration order.
MarshalIndent(cfg) ==
    [i \in 1..Len(Fields) |-> [key |-> JSONKey[Fields[i]], val |-> EncodeString(cfg[Fields[i]])]]

\* The value of the member of that key, the zero value when there is none.
Member(data, key) ==
    IF \E i \in 1..Len(data) : data[i].key = key
    THEN DecodeString(data[CHOOSE i \in 1..Len(data) : data[i].key = key].val)
    ELSE <<>>

\* json.Unmarshal(data, &config)
Unmarshal(data) ==
    [f \in {Fields[i] : i \in 1..Len(Fields)} |-> Member(data, JSONKey[f])]

\* The all-empty record of the codec.
EmptyRecord == [f \in {Fields[i] : i \in 1..Len(Fields)} |-> <<>>]

Strings == UNION {[1..n -> Chars] : n \in 0..MaxStrLen}

\* The records the codec is checked on: one field holds any string, the
\* others hold the same short string.
Records ==
    {[f \in {Fields[i] : i \in 1..Len(Fields)} |-> IF f = k THEN str ELSE rest] :
        k \in {Fields[i] : i \in 1..Len(Fields)}, str \in Strings, rest \in {<<>>, <<"n">>}}

InitCodec ==
    /\ file = <<>>
    /\ wiOn = {}
    /\ sa = {}
    /\ nops = 0
    /\ last = NoRun
    /\ prev = NoRun
    /\ cfgIn \in Records
    /\ disk = <<>>
    /\ cfgOut = EmptyRecord
    /\ jpc = "new"
    /\ ScanIdle
    /\ RaceIdle
    /\ SpinIdle

\* SaveConfig(cfgIn)
Save ==
    /\ jpc = "new"
    /\ disk' = MarshalIndent(cfgIn)
    /\ jpc' = "saved"
    /\ UNCHANGED <<sessionVars, scanVars, spinVars, raceVars, cfgIn, cfgOut>>

\* LoadConfig(): an absent file gives the default record.
Load ==
    /\ jpc \in {"new", "saved"}
    /\ cfgOut' = IF disk = <<>> THEN EmptyRecord ELSE Unmarshal(disk)
    /\ jpc' = IF jpc = "saved" THEN "loaded" ELSE "new"
    /\ UNCHANGED <<sessionVars, scanVars, spinVars, raceVars, cfgIn, disk>>

NextCodec == Save \/ Load

SpecCodec == InitCodec /\ [][NextCodec]_vars

-----------------------------------------------------------------------------
(* The argument scan of cluster create, next to the loop the test of the   *)
(* command keeps as its reference.                                         *)

\* The tokens argument lists are made of: recognised flags in long and short
\* form, the flag only the test recognises, a flag of az, a word, a numeral.
Tokens ==
    {"--name", "-g", "--location", "--node-count", "--node-vm-size",
     "--skip-identity-creation", "--zones", "x", "3"}

\* The longest argument list scanned.
MaxArgs == 4

\* The variables of the scan loop as cobra leaves them when no flag is given.
FlagDefaults ==
    [name |-> "", resourceGroup |-> "", location |-> "eastus", nodeCount |-> 1,
     nodeVMSize |-> "Standard_DS2_v2", customArgs |-> <<>>]

InitArgs ==
    /\ file = <<>>
    /\ wiOn = {}
    /\ sa = {}
    /\ nops = 0
    /\ last = NoRun
    /\ prev = NoRun
    /\ CodecIdle
    /\ argv \in UNION {[1..n -> Tokens] : n \in 0..MaxArgs}
    /\ start \in {ZeroArgs, FlagDefaults}
    /\ parsed = <<>>
    /\ reference = <<>>
    /\ RaceIdle
    /\ SpinIdle

\* The loop of the handler runs over argv.
Scan ==
    /\ parsed = <<>>
    /\ parsed' = <<ScanArgs(argv, 1, start)>>
    /\ UNCHANGED <<sessionVars, codecVars, raceVars, spinVars, argv, start, reference>>

\* The loop of the test runs over argv.
Reference ==
    /\ reference = <<>>
    /\ reference' = <<ReferenceScan(argv, 1,
                         [name |-> start.name, resourceGroup |-> start.resourceGroup,
                          location |-> start.location, nodeCount |-> start.nodeCount,
                          nodeVMSize |-> start.nodeVMSize, customArgs |-> start.customArgs,
                          skipIdentityCreation |-> FALSE])>>
    /\ UNCHANGED <<sessionVars, codecVars, raceVars, spinVars, argv, start, parsed>>

NextArgs == Scan \/ Reference

SpecArgs == InitArgs /\ [][NextArgs]_vars

-----------------------------------------------------------------------------
(* Concurrent invocations of the CLI over one store.  An invocation is a   *)
(* process of its own; what it shares with the others is config.json.      *)
(* Its steps are the external lookup before the load, LoadConfig with the  *)
(* test of the selection, the external commands between load and save, and *)
(* SaveConfig of the record it loaded with its own fields assigned.        *)

\* The commands run concurrently: each loads the store, assigns the fields of
\* its own and saves; install-spin-operator assigns none.
Jobs ==
    {[op |-> "cluster use", name |-> "demo", rg |-> "rg2", id |-> ""],
     [op |-> "identity use", name |-> "", rg |-> "", id |-> "id2"],
     [op |-> "cluster install-spin-operator", name |-> "", rg |-> "", id |-> ""]}

\* The fields of the store a command assigns before it saves.
Written(j) ==
    IF j.op = "cluster use" THEN {"ClusterName", "ResourceGroup"}
    ELSE IF j.op = "identity use" THEN {"IdentityName"}
    ELSE {}

\* The record a command saves, from the record it loaded.
Modify(j, cfg) ==
    IF j.op = "cluster use" THEN [cfg EXCEPT !.ClusterName = j.name, !.ResourceGroup = j.rg]
    ELSE IF j.op = "identity use" THEN [cfg EXCEPT !.IdentityName = j.id]
    ELSE cfg

InitRace ==
    /\ file = SaveConfig([Config EXCEPT !.SubscriptionID = Sub, !.TenantID = Tenant,
                                        !.ResourceGroup = "rg1", !.ClusterName = "old"])
    /\ wiOn = {}
    /\ sa = {}
    /\ nops = 0
    /\ last = NoRun
    /\ prev = NoRun
    /\ CodecIdle
    /\ ScanIdle
    /\ RaceIdle
    /\ SpinIdle

\* The user starts a command in a terminal of its own.
Invoke(p) ==
    /\ pc[p] = "idle"
    /\ \E j \in Jobs :
          /\ job' = [job EXCEPT ![p] = j]
          /\ pc' = [pc EXCEPT ![p] =
                        IF j.op = "cluster install-spin-operator" THEN "ready" ELSE "lookup"]
    /\ UNCHANGED <<sessionVars, codecVars, scanVars, spinVars, loaded, staleBy, lastWriter>>

\* GetCluster of UseCluster, getIdentityClientID of UseIdentity: the external
\* command before the load succeeds or exits non-zero.
Lookup(p) ==
    /\ pc[p] = "lookup"
    /\ \E ok \in BOOLEAN : pc' = [pc EXCEPT ![p] = IF ok THEN "ready" ELSE "failed"]
    /\ UNCHANGED <<sessionVars, codecVars, scanVars, spinVars, job, loaded, staleBy, lastWriter>>

\* config.LoadConfig, and the test of the selection where the command has one.
LoadStep(p) ==
    /\ pc[p] = "ready"
    /\ loaded' = [loaded EXCEPT ![p] = <<LoadConfig(file)>>]
    /\ staleBy' = [staleBy EXCEPT ![p] = {}]
    /\ pc' = [pc EXCEPT ![p] =
                  IF job[p].op # "cluster use" /\ NoClusterSelected(LoadConfig(file))
                  THEN "failed"
                  ELSE IF job[p].op = "cluster install-spin-operator" THEN "installing"
                  ELSE "loaded"]
    /\ UNCHANGED <<sessionVars, codecVars, scanVars, spinVars, job, lastWriter>>

\* The external commands of DeploySpinOperator, between its load and its save.
Install(p) ==
    /\ pc[p] = "installing"
    /\ \E ok \in BOOLEAN : pc' = [pc EXCEPT ![p] = IF ok THEN "loaded" ELSE "failed"]
    /\ UNCHANGED <<sessionVars, codecVars, scanVars, spinVars, job, loaded, staleBy, lastWriter>>

\* A save that reads the store again and assigns its fields to that record.
SaveStepReload(p) ==
    /\ pc[p] = "loaded"
    /\ file' = SaveConfig(Modify(job[p], LoadConfig(file)))
    /\ pc' = [pc EXCEPT ![p] = "done"]
    /\ lastWriter' = <<p>>
    /\ staleBy' = [q \in Procs |->
                       IF q # p /\ pc[q] \in {"installing", "loaded"}
                       THEN staleBy[q] \cup {p} ELSE staleBy[q]]
    /\ UNCHANGED <<wiOn, sa, last, prev, nops, codecVars, scanVars, spinVars, job, loaded>>

\* config.SaveConfig(cfg): the record loaded earlier, with the fields of the
\* command assigned, replaces the file.
SaveStep(p) ==
    /\ pc[p] = "loaded"
    /\ file' = SaveConfig(Modify(job[p], loaded[p][1]))
    /\ pc' = [pc EXCEPT ![p] = "done"]
    /\ lastWriter' = <<p>>
    /\ staleBy' = [q \in Procs |->
                       IF q # p /\ pc[q] \in {"installing", "loaded"}
                       THEN staleBy[q] \cup {p} ELSE staleBy[q]]
    /\ UNCHANGED <<wiOn, sa, last, prev, nops, codecVars, scanVars, spinVars, job, loaded>>

NextRace ==
    \E p \in Procs :
        \/ Invoke(p)
        \/ Lookup(p)
        \/ LoadStep(p)
        \/ Install(p)
        \/ SaveStep(p)

SpecRace == InitRace /\ [][NextRace]_vars

-----------------------------------------------------------------------------
(* CreateCluster and its spinner.  CreateCluster starts a goroutine that    *)
(* redraws a frame at every tick until the channel done is closed; the two  *)
(* run concurrently, and the process can exit while the goroutine waits.    *)

\* The frames of the spinner.
NFrames == 4

\* The most frames the ticker is let to draw in one run.
MaxFrames == 4

InitSpinner ==
    /\ file = SaveConfig([Config EXCEPT !.SubscriptionID = Sub, !.TenantID = Tenant])
    /\ wiOn = {}
    /\ sa = {}
    /\ nops = 0
    /\ last = NoRun
    /\ prev = NoRun
    /\ CodecIdle
    /\ ScanIdle
    /\ RaceIdle
    /\ SpinIdle

\* runSpinner: the first frame is written, the goroutine is started and the
\* channel returned; CreateCluster goes on to start az.
RunSpinner ==
    /\ cc = "start"
    /\ printed' = printed + 1
    /\ sp' = "waiting"
    /\ cc' = "az"
    /\ UNCHANGED <<sessionVars, codecVars, scanVars, raceVars, azOK, frame, tick, closes>>

\* cmd.CombinedOutput() returns, with or without an error.
AzReturns ==
    /\ cc = "az"
    /\ \E ok \in BOOLEAN : azOK' = ok
    /\ cc' = "back"
    /\ UNCHANGED <<sessionVars, codecVars, scanVars, raceVars, sp, frame, tick, closes, printed>>

\* A close of the channel on the path without error only.
CloseSpinnerOnSuccess ==
    /\ cc = "back"
    /\ closes' = IF azOK THEN closes + 1 ELSE closes
    /\ cc' = IF azOK THEN "saving" ELSE "returned"
    /\ UNCHANGED <<sessionVars, codecVars, scanVars, raceVars, azOK, sp, frame, tick, printed>>

\* close(spinnerDone), then the test of the error of az.
CloseSpinner ==
    /\ cc = "back"
    /\ closes' = closes + 1
    /\ cc' = IF azOK THEN "saving" ELSE "returned"
    /\ UNCHANGED <<sessionVars, codecVars, scanVars, raceVars, azOK, sp, frame, tick, printed>>

\* The store is loaded, assigned and saved; CreateCluster returns nil.
SaveSelection ==
    /\ cc = "saving"
    /\ file' = SaveConfig([LoadConfig(file) EXCEPT !.ClusterName = "demo",
                                                   !.ResourceGroup = "rg1"])
    /\ cc' = "installing"
    /\ UNCHANGED <<wiOn, sa, last, prev, nops, codecVars, scanVars, raceVars,
                   azOK, sp, frame, tick, closes, printed>>

\* The handler goes on with DeploySpinOperator after a successful create.
InstallAfterCreate ==
    /\ cc = "installing"
    /\ cc' = "returned"
    /\ UNCHANGED <<sessionVars, codecVars, scanVars, raceVars,
                   azOK, sp, frame, tick, closes, printed>>

\* The handler has returned and main ends the process: a goroutine that
\* still waits ends with it.
Exit ==
    /\ cc = "returned"
    /\ cc' = "exited"
    /\ sp' = IF sp = "waiting" THEN "killed" ELSE sp
    /\ UNCHANGED <<sessionVars, codecVars, scanVars, raceVars, azOK, frame, tick, closes, printed>>

\* The ticker puts a tick into its channel, which holds one.
TickerFires ==
    /\ sp = "waiting"
    /\ ~tick
    /\ tick' = TRUE
    /\ UNCHANGED <<sessionVars, codecVars, scanVars, raceVars, cc, azOK, sp, frame, closes, printed>>

\* case <-ticker.C: the next frame is written.
SpinnerTick ==
    /\ sp = "waiting"
    /\ tick
    /\ printed < MaxFrames
    /\ tick' = FALSE
    /\ frame' = (frame + 1) % NFrames
    /\ printed' = printed + 1
    /\ UNCHANGED <<sessionVars, codecVars, scanVars, raceVars, cc, azOK, sp, closes>>

\* case <-done: the line "Done!" is written and the goroutine returns.
SpinnerStop ==
    /\ sp = "waiting"
    /\ closes > 0
    /\ printed' = printed + 1
    /\ sp' = "stopped"
    /\ UNCHANGED <<sessionVars, codecVars, scanVars, raceVars, cc, azOK, frame, tick, closes>>

NextSpinner ==
    \/ RunSpinner
    \/ AzReturns
    \/ CloseSpinner
    \/ SaveSelection
    \/ InstallAfterCreate
    \/ Exit
    \/ TickerFires
    \/ SpinnerTick
    \/ SpinnerStop

\* A goroutine that can run is run: select takes a case that stays ready.
SpecSpinner == InitSpinner /\ [][NextSpinner]_vars /\ WF_vars(SpinnerStop)

-----------------------------------------------------------------------------
(* Properties of the provisioning pipeline.                                *)

\* The record a load of the store returns now.
Store == LoadConfig(file)

\* The run ended with an operator installation that started commands: cluster
\* create and cluster use --install-spin-operator start one command of their
\* own first, cluster install-spin-operator starts none.
InstallOp(r) ==
    \/ r.op = "cluster install-spin-operator"
    \/ r.op = "cluster create"
    \/ r.op = "cluster use" /\ r.in.flag
OwnCommands(r) == IF r.op = "cluster install-spin-operator" THEN 0 ELSE 1
InstallStarted(r) == InstallOp(r) /\ Len(r.log) > OwnCommands(r)
OperatorLog(r) == SubSeq(r.log, OwnCommands(r) + 1, Len(r.log))

\* What a command is: the tool and its verb.
Kind(cmd) ==
    CASE cmd[1] = "az" -> cmd[3]
      [] cmd[1] = "kubectl" -> cmd[2]
      [] cmd[1] = "helm" /\ cmd[2] = "repo" -> "repo " \o cmd[3]
      [] cmd[1] = "helm" -> cmd[2]
      [] OTHER -> cmd[1]
Kinds(log) == [i \in 1..Len(log) |-> Kind(log[i])]

\* A command that would take back an earlier step.
IsUndo(cmd) ==
    \/ cmd[1] = "helm" /\ cmd[2] \in {"uninstall", "delete", "rollback"}
    \/ cmd[1] = "helm" /\ cmd[2] = "repo" /\ cmd[3] = "remove"
    \/ cmd[1] = "kubectl" /\ cmd[2] = "delete"
    \/ cmd[1] = "az" /\ cmd[3] = "delete"

\* The kinds of the commands of a whole installation, in order.
InstallKinds ==
    <<"get-credentials", "apply", "apply", "apply", "repo add", "repo update",
      "install", "repo add", "install", "annotate", "sleep", "install", "apply">>

\* C1: when cluster create --name N --resource-group G has started its
\* external commands and every one of them has succeeded, the command returns
\* success and a load of the store gives clusterName = N and resourceGroup = G.
C1_CreateRecordsCluster ==
    (last.op = "cluster create" /\ last.log # <<>> /\ last.failed = 0)
        => /\ last.err = ""
           /\ Store.ClusterName = last.in.name
           /\ Store.ResourceGroup = last.in.rg

\* A create of "demo" in rg2 has succeeded over a store that selected "old" in rg1.
C1_Witness ==
    /\ last.op = "cluster create" /\ last.failed = 0 /\ last.err = ""
    /\ Len(last.log) = 1 + NSteps
    /\ last.in.name = "demo" /\ last.in.rg = "rg2"
    /\ LoadConfig(last.pre).ClusterName = "old"
    /\ Store.ClusterName = "demo" /\ Store.ResourceGroup = "rg2"

\* C2 as stated: a successful installation starts twelve commands, the final
\* executor configuration right after the sleep.
C2_ClaimedOrder ==
    (InstallStarted(last) /\ last.err = "")
        => Kinds(OperatorLog(last)) =
             <<"get-credentials", "apply", "apply", "apply", "repo add", "repo update",
               "install", "repo add", "install", "annotate", "sleep", "apply">>

\* C2: when every external command succeeds, deploySpinOperator starts exactly
\* thirteen commands in this order: credentials, two CRD manifests, cert-manager
\* CRDs, repository add and update, cert-manager chart, second repository, kwasm
\* operator chart, node annotation, sleep, Spin Operator chart, executor
\* configuration.
C2_InstallOrder ==
    (InstallStarted(last) /\ last.err = "")
        => LET log == OperatorLog(last)
           IN  /\ Kinds(log) = InstallKinds
               /\ log[7][3] = "cert-manager"
               /\ log[9][3] = "kwasm-operator"
               /\ log[11] = <<"sleep", "30">>
               /\ log[12][3] = "spin-operator"

\* cluster install-spin-operator has run to its end.
C2_Witness ==
    /\ last.op = "cluster install-spin-operator"
    /\ last.err = ""
    /\ Len(last.log) = NSteps

\* C3: when the create command of createCluster exits non-zero, the handler
\* returns a failure, starts nothing more, and the store is what it was before
\* the call.
C3_FailedCreateKeepsStore ==
    (last.op = "cluster create" /\ last.failed = 1)
        => /\ last.err # ""
           /\ Len(last.log) = 1
           /\ file = last.pre

\* A create of "demo" has failed over a store that selected "old".
C3_Witness ==
    /\ last.op = "cluster create" /\ last.failed = 1
    /\ last.in.name = "demo" /\ last.in.rg = "rg2"
    /\ last.pre # <<>>
    /\ Store.ClusterName = "old" /\ Store.ResourceGroup = "rg1"

\* C4: when the k-th command of deploySpinOperator exits non-zero, the commands
\* started are exactly the first k of the installation, none of them takes an
\* earlier step back, and a failure is returned.
C4_InstallStopsAtFailure ==
    (InstallStarted(last) /\ last.failed > OwnCommands(last))
        => LET log == OperatorLog(last)
               k == last.failed - OwnCommands(last)
           IN  /\ last.err # ""
               /\ Len(log) = k
               /\ Kinds(log) = SubSeq(InstallKinds, 1, k)
               /\ \A i \in 1..Len(log) : ~IsUndo(log[i])

\* The cert-manager chart, the seventh command, has failed.
C4_Witness ==
    /\ last.op = "cluster install-spin-operator"
    /\ last.failed = 7
    /\ Len(last.log) = 7
    /\ last.err = ErrExternal

-----------------------------------------------------------------------------
(* Properties of the configuration store.                                  *)

\* Every field of the record is valid UTF-8.
ValidUTF8(cfg) ==
    \A i \in 1..Len(Fields) : \A j \in 1..Len(cfg[Fields[i]]) : cfg[Fields[i]][j] # "xFF"

\* C5 as stated: a record saved and then loaded comes back equal in every
\* field, whatever the record.
C5_RoundTripAny ==
    jpc = "loaded" => cfgOut = cfgIn

\* C5: a record whose fields are valid UTF-8 strings, saved and then loaded,
\* comes back equal in every field; the all-empty record is one of them.
C5_RoundTripValid ==
    (jpc = "loaded" /\ ValidUTF8(cfgIn)) => cfgOut = cfgIn

\* A record with characters the encoder escapes has gone through the file.
C5_Witness ==
    /\ jpc = "loaded"
    /\ cfgIn.ClusterName = <<"lt", "bs">>
    /\ cfgIn.IdentityName = <<"n">>
    /\ disk[4].val # cfgIn.ClusterName
    /\ cfgOut = cfgIn

\* The reset was confirmed: --yes, or the answer y or Y.
ResetConfirmed(r) == r.in.flag \/ r.in.name \in {"y", "Y"}

\* C6 as stated: after any run of config reset, a load of the store gives the
\* all-empty record.
C6_ResetAlwaysEmpties ==
    last.op = "config reset" => Store = Config

\* C6: config reset returns success; when it was confirmed (--yes, or the
\* answer y or Y) a load of the store gives the all-empty record, and when it
\* was not the store is what it was before.
C6_ConfirmedResetEmpties ==
    last.op = "config reset"
        => /\ last.err = ""
           /\ ResetConfirmed(last) => Store = Config
           /\ ~ResetConfirmed(last) => file = last.pre

\* A confirmed reset has emptied a store that held a login and a selection.
C6_Witness ==
    /\ last.op = "config reset"
    /\ ResetConfirmed(last)
    /\ LoadConfig(last.pre).SubscriptionID = Sub
    /\ LoadConfig(last.pre).ClusterName = "old"
    /\ file = <<Config>>

-----------------------------------------------------------------------------
(* Properties of repeated calls.                                           *)

\* A call of CreateServiceAccount that started commands, none of which failed.
ServiceAccountRun(r) == r.op = "CreateServiceAccount" /\ r.log # <<>> /\ r.failed = 0

\* C7: when createServiceAccount is called twice in a row with the same
\* identity name and no external command fails, both calls return success, the
\* second starts no kubectl apply, and the service account and its client-ID
\* annotation after the second call are what they were after the first.
C7_CreateServiceAccountIdempotent ==
    (ServiceAccountRun(prev) /\ ServiceAccountRun(last) /\ prev.in.id = last.in.id)
        => /\ prev.err = ""
           /\ last.err = ""
           /\ \A i \in 1..Len(last.log) : Kind(last.log[i]) # "apply"
           /\ sa = last.preSA
           /\ \E x \in sa :
                x = <<Store.ResourceGroup, Store.ClusterName, last.in.id,
                      ClientID(last.in.id, Store.ResourceGroup)>>

\* The first call has applied the service account, the second has found it.
C7_Witness ==
    /\ ServiceAccountRun(prev) /\ ServiceAccountRun(last)
    /\ prev.in.id = "id2" /\ last.in.id = "id2"
    /\ Kind(prev.log[Len(prev.log)]) = "apply"
    /\ Kind(last.log[Len(last.log)]) = "get"
    /\ sa # {}

\* A run of cluster check-identity that found the feature disabled and whose
\* enable command succeeded.
Enabling(r) ==
    /\ r.op = "cluster check-identity"
    /\ Len(r.log) = 2 /\ Kind(r.log[2]) = "update"
    /\ r.failed = 0 /\ r.err = ""

\* C8: after a check that found workload identity disabled and enabled it,
\* the next check (its show command succeeding) returns true and enables
\* nothing, and so does the check after that one.
C8_EnabledStaysEnabled ==
    (Enabling(prev) /\ last.op = "cluster check-identity"
                    /\ last.log # <<>> /\ last.failed = 0)
        => /\ last.err = "" /\ last.ret
           /\ Len(last.log) = 1
           /\ LET s == CheckWorkloadIdentity(Begin, 0, Store.SubscriptionID)
              IN  s.err = "" /\ s.ret /\ Len(s.log) = 1

\* A check has run right after an enabling one.
C8_Witness ==
    /\ Enabling(prev)
    /\ last.op = "cluster check-identity"
    /\ last.ret /\ Len(last.log) = 1 /\ last.failed = 0

-----------------------------------------------------------------------------
(* Properties of deploy.                                                   *)

DeployOp(r) == r.op \in {"deploy", "deploy --identity"}

\* The handler went on to Service.Deploy: the credential, the subscription, the
\* --from flag and the stored identity were in order.
ReachedDeploy(r) ==
    /\ DeployOp(r)
    /\ r.err \notin {ErrCredential, ErrNoSubscription, ErrFromRequired, ErrNoIdentity}

\* The identity name the handler hands to Service.Deploy.
PassedIdentity(r) ==
    IF r.op = "deploy --identity"
    THEN (IF r.in.id = "" THEN "workload-identity" ELSE r.in.id)
    ELSE ""

\* The three preconditions, on the state the run started from.
ClusterSelected(r) == ~NoClusterSelected(LoadConfig(r.pre))
ManifestExists(r) == FileExists(r.in.stat)
ServiceAccountExists(r) ==
    \E x \in r.preSA : /\ x[1] = LoadConfig(r.pre).ResourceGroup
                       /\ x[2] = LoadConfig(r.pre).ClusterName
                       /\ x[3] = PassedIdentity(r)

\* C9: whenever the manifest path given to deploy does not exist, deploy
\* returns an error and has started no external command, whatever the store
\* contains.
C9_MissingManifestNoCalls ==
    (DeployOp(last) /\ last.in.name # "" /\ ~ManifestExists(last))
        => /\ last.err # ""
           /\ last.log = <<>>

\* C10 as stated: when exactly one of the three preconditions is violated,
\* deploy fails and has started no external command.
C10_AnyPreconditionNoCalls ==
    (/\ ReachedDeploy(last)
     /\ PassedIdentity(last) # ""
     /\ \/ ~ClusterSelected(last) /\ ManifestExists(last)
        \/ ClusterSelected(last) /\ ~ManifestExists(last) /\ ServiceAccountExists(last)
        \/ ClusterSelected(last) /\ ManifestExists(last) /\ ~ServiceAccountExists(last))
        => /\ last.err # ""
           /\ last.log = <<>>

\* C10: deploy fails with no external command started when no cluster is
\* selected or when the manifest is reported missing (ENOENT); when the service
\* account of a non-empty identity name is missing it fails too, after the
\* credential fetch and the lookup, which are all it starts when they succeed,
\* and never with an apply.
C10_Preconditions ==
    ReachedDeploy(last)
        => /\ ~ClusterSelected(last) => (last.err = ErrNoCluster /\ last.log = <<>>)
           /\ (ClusterSelected(last) /\ last.in.stat = "ENOENT")
                => (last.err = ErrNotFound /\ last.log = <<>>)
           /\ (PassedIdentity(last) # "" /\ ~ServiceAccountExists(last))
                => /\ last.err # ""
                   /\ \A i \in 1..Len(last.log) : Kind(last.log[i]) # "apply"
           /\ (/\ PassedIdentity(last) # "" /\ ~ServiceAccountExists(last)
               /\ ClusterSelected(last) /\ ManifestExists(last) /\ last.failed = 0)
                => /\ last.err = ErrNoServiceAccount
                   /\ Kinds(last.log) = <<"get-credentials", "get">>

\* A deploy with an existing manifest has found no service account.
C10_Witness ==
    /\ last.op = "deploy --identity"
    /\ ClusterSelected(last) /\ ManifestExists(last) /\ ~ServiceAccountExists(last)
    /\ last.err = ErrNoServiceAccount
    /\ Len(last.log) = 2

\* The identity the deploy command works with: the --identity flag (or its
\* default) where the command has one, the identity of the store otherwise.
IdentityInUse(r) ==
    IF r.op = "deploy --identity" THEN PassedIdentity(r)
    ELSE LoadConfig(r.pre).IdentityName

\* C11: in every run of the deploy command the manifest is handed to kubectl
\* apply (dry run or real) only if a service account named after the identity
\* in use existed in namespace "default" of the selected cluster when the run
\* started, and the run leaves the service accounts as they were.
C11_ApplyOnlyWithServiceAccount ==
    DeployOp(last)
        => /\ sa = last.preSA
           /\ (\E i \in 1..Len(last.log) : Kind(last.log[i]) = "apply")
                => \E x \in last.preSA :
                      /\ x[1] = LoadConfig(last.pre).ResourceGroup
                      /\ x[2] = LoadConfig(last.pre).ClusterName
                      /\ x[3] = IdentityInUse(last)

-----------------------------------------------------------------------------
(* Properties of the precondition and failure paths.                       *)

\* C12: assign-role cosmosdb without --identity, over a store that names no
\* identity, returns an error and has started no external command; when the
\* credential, the subscription and the resource group are in order the error
\* is the one that names the missing identity.
C12_AssignRoleNeedsIdentity ==
    (/\ last.op = "assign-role cosmosdb"
     /\ last.in.id = ""
     /\ LoadConfig(last.pre).IdentityName = "")
        => /\ last.err # ""
           /\ last.log = <<>>
           /\ file = last.pre
           /\ last.err \in {ErrCredential, ErrNoSubscription, ErrCosmosResourceGroup,
                            ErrIdentityNotSet}

\* The identity was the only thing missing.
C12_Witness ==
    /\ last.op = "assign-role cosmosdb"
    /\ last.in.id = ""
    /\ last.in.rg = "rg2"
    /\ LoadConfig(last.pre).SubscriptionID = Sub
    /\ LoadConfig(last.pre).IdentityName = ""
    /\ last.err = ErrIdentityNotSet
    /\ last.log = <<>>

\* No argument vector occurs twice in the log.
NoRepeat(log) == \A i, j \in 1..Len(log) : log[i] = log[j] => i = j

\* The closing database and container lookup of bind cosmosdb: the commands
\* after the five of the role assignment.
InfoLookup(r, k) == r.op = "bind cosmosdb" /\ k > 5

\* C14 as stated: in every handler run with a failing external command,
\* nothing is started after it, no argument vector is started twice, and the
\* handler returns a failure.
C14_EveryFailureFatal ==
    last.failed # 0
        => /\ Len(last.log) = last.failed
           /\ NoRepeat(last.log)
           /\ last.err # ""

\* C14: in every handler run with a failing external command, nothing is
\* started after it; the handler returns a failure unless the command is one
\* of the closing lookups of bind cosmosdb, whose failure leaves the result
\* success; and the only argument vector a run starts twice is the client-ID
\* lookup az identity show of identity create and identity use.
C14_FailureFatal ==
    /\ last.failed # 0
            => /\ Len(last.log) = last.failed
               /\ InfoLookup(last, last.failed) => last.err = ""
               /\ ~InfoLookup(last, last.failed) => last.err # ""
    /\ \A i, j \in 1..Len(last.log) :
            (i < j /\ last.log[i] = last.log[j])
                => /\ last.op \in {"identity create", "identity use"}
                   /\ last.log[i][2] = "identity" /\ last.log[i][3] = "show"

\* The client-ID lookup of an identity creation, its second command, has failed.
C14_Witness ==
    /\ last.op = "identity create"
    /\ last.failed = 2
    /\ Len(last.log) = 2
    /\ last.err = ErrExternal
    /\ file = last.pre

\* The run is one of an operation that needs a selected cluster.
NeedsCluster(r) ==
    \/ r.op \in {"cluster check-identity", "cluster install-spin-operator",
                 "CreateServiceAccount", "identity use", "deploy", "deploy --identity"}
    \/ r.op = "identity create" /\ ~r.in.flag

\* C13: every run of an operation that needs a selected cluster, started over
\* a store that selects none, returns an error, has started no external
\* command and leaves the store as it was; so does enableWorkloadIdentity.
C13_NoClusterNoCalls ==
    /\ (NeedsCluster(last) /\ NoClusterSelected(LoadConfig(last.pre)))
            => /\ last.err # ""
               /\ last.log = <<>>
               /\ file = last.pre
    /\ NoClusterSelected(Store)
            => LET s == EnableWorkloadIdentity(Begin, 0, Sub)
               IN  s.err = ErrNoCluster /\ s.log = <<>> /\ s.file = file

\* The run was given a --node-count whose value strconv.Atoi rejects.
BadNodeCount(r) ==
    /\ r.op = "cluster create"
    /\ \E i \in 1..Len(r.in.args) :
          /\ r.in.args[i] = "--node-count"
          /\ HasValue(r.in.args, i)
          /\ r.in.args[i + 1] \notin {Digits[n] : n \in 1..10} \cup {"-1"}

\* The node count of the az aks create command of a cluster create run.
NodeCountPassed(r) ==
    LET c == r.log[1]
    IN  c[(CHOOSE i \in 1..Len(c) : c[i] = "--node-count") + 1]

-----------------------------------------------------------------------------
(* Properties of the arguments of cluster create.                          *)

\* The flags the argument scan of cluster create assigns to its own variables.
ScanFlags ==
    {"--name", "-n", "--resource-group", "-g", "--location", "-l",
     "--node-count", "--node-vm-size"}

\* The run is a cluster create that has started az aks create.
Created(r) == r.op = "cluster create" /\ Len(r.log) >= 1

\* C16 as stated: the arguments of az aks create are the fixed list, with
\* --enable-oidc-issuer and --enable-workload-identity, followed by the
\* additional arguments the caller gave, each once and in the order given.
C16_ForwardedVerbatim ==
    (Created(last) /\ \A i \in 1..Len(last.in.args) : last.in.args[i] \notin ScanFlags)
        => LET c == last.log[1]
               n == Len(c) - Len(last.in.args)
           IN  /\ n >= 0
               /\ SubSeq(c, n + 1, Len(c)) = last.in.args
               /\ \E i, j \in 1..n : c[i] = "--enable-oidc-issuer"
                                     /\ c[j] = "--enable-workload-identity"

\* Both loops have run over argv.
Scanned == parsed # <<>> /\ reference # <<>>

\* The two loops end with the same variables.
SameResult ==
    /\ parsed[1].name = reference[1].name
    /\ parsed[1].resourceGroup = reference[1].resourceGroup
    /\ parsed[1].location = reference[1].location
    /\ parsed[1].nodeCount = reference[1].nodeCount
    /\ parsed[1].nodeVMSize = reference[1].nodeVMSize
    /\ parsed[1].customArgs = reference[1].customArgs

\* The custom map holds the flags of argv outside known, each with the token
\* after its last occurrence when that token is a value, and with "" otherwise.
CustomMapOf(known) ==
    LET m == parsed[1].customArgs
        Other(i) == HasPrefixDashDash(argv[i]) /\ argv[i] \notin known
    IN  /\ DOMAIN m = {argv[i] : i \in {j \in 1..Len(argv) : Other(j)}}
        /\ \A i \in 1..Len(argv) :
              (Other(i) /\ \A j \in (i + 1)..Len(argv) : argv[j] # argv[i])
                  => m[argv[i]] = IF i + 1 <= Len(argv) /\ ~HasPrefixDashDash(argv[i + 1])
                                  THEN argv[i + 1] ELSE ""

Passed(r, flag) ==
    LET c == r.log[1]
    IN  c[(CHOOSE i \in 1..Len(c) : c[i] = flag) + 1]

\* The run was given flag among its arguments.
Given(r, flag) == \E i \in 1..Len(r.in.args) : r.in.args[i] = flag

\* The run was given a node count that is not a positive integer.
NoPositiveCount(r) ==
    \E i \in 1..Len(r.in.args) :
        /\ r.in.args[i] = "--node-count"
        /\ HasValue(r.in.args, i)
        /\ r.in.args[i + 1] \notin {Digits[n] : n \in 2..10}

\* C18: a cluster create given no --location, --node-count or --node-vm-size
\* creates the cluster in "eastus" with 1 node of size "Standard_DS2_v2"; a
\* node count that is not a positive integer is replaced by 1, so the node
\* count passed on is always at least 1.
C18_Defaults ==
    Created(last)
        => /\ ~Given(last, "--location") /\ ~Given(last, "-l")
                => Passed(last, "--location") = "eastus"
           /\ ~Given(last, "--node-count") => Passed(last, "--node-count") = "1"
           /\ ~Given(last, "--node-vm-size")
                => Passed(last, "--node-vm-size") = "Standard_DS2_v2"
           /\ NoPositiveCount(last) => Passed(last, "--node-count") = "1"
           /\ Passed(last, "--node-count") \in {Digits[n] : n \in 2..10}

\* A cluster has been created by a run that was given the node count 0.
C18_Witness ==
    /\ Created(last)
    /\ last.err = ""
    /\ \E i \in 1..(Len(last.in.args) - 1) :
          last.in.args[i] = "--node-count" /\ last.in.args[i + 1] = "0"
    /\ Passed(last, "--node-count") = "1"

-----------------------------------------------------------------------------
(* Properties of concurrent invocations.                                   *)

\* Invocation p has saved, and what it assigned is no longer in the store.
Lost(p) ==
    /\ pc[p] = "done"
    /\ \E f \in Written(job[p]) : LoadConfig(file)[f] # Modify(job[p], Config)[f]

\* C19: nothing protects the store from concurrent writers.  The stored
\* record is always the one the last writer built from what it had loaded;
\* where another invocation saved between that load and that save, every
\* field that invocation alone assigned is back at the value the last writer
\* had loaded, so its update is lost.
C19_LastWriterWins ==
    \A q \in Procs :
        lastWriter = <<q>>
            => /\ file = SaveConfig(Modify(job[q], loaded[q][1]))
               /\ \A p \in staleBy[q] :
                     \A f \in Written(job[p]) \ Written(job[q]) :
                         LoadConfig(file)[f] = loaded[q][1][f]

\* cluster use and identity use have run concurrently on different fields,
\* both have saved, and the update of the first to save is lost.
C19_Witness ==
    \E p, q \in Procs :
        /\ p # q
        /\ pc[p] = "done" /\ pc[q] = "done"
        /\ Written(job[p]) \cap Written(job[q]) = {}
        /\ lastWriter = <<q>>
        /\ p \in staleBy[q]
        /\ Lost(p)

-----------------------------------------------------------------------------
(* Properties of cluster check-identity.                                   *)

\* The run has started az aks update.
UpdateInvoked(r) ==
    \E i \in 1..Len(r.log) : r.log[i][2] = "aks" /\ r.log[i][3] = "update"

\* The check of the run has succeeded: az aks show was started and exited zero.
CheckSucceeded(r) == Len(r.log) >= 1 /\ r.failed # 1

\* C20: cluster check-identity starts the update command exactly when its
\* check has succeeded and reported the feature as not enabled; it starts
\* nothing but az aks show and az aks update, so no identity, service account
\* or federated credential command, and it leaves the store as it was.
C20_CheckIdentityFrame ==
    last.op = "cluster check-identity"
        => /\ UpdateInvoked(last) <=> (CheckSucceeded(last) /\ ~last.ret)
           /\ \A i \in 1..Len(last.log) :
                 /\ last.log[i][1] = "az" /\ last.log[i][2] = "aks"
                 /\ last.log[i][3] \in {"show", "update"}
           /\ Len(last.log) <= 2
           /\ file = last.pre
           /\ sa = last.preSA

\* A check-identity has found the feature off and enabled it, and the next
\* one has found it on and started no update.
C20_Witness ==
    /\ prev.op = "cluster check-identity"
    /\ UpdateInvoked(prev)
    /\ prev.err = ""
    /\ last.op = "cluster check-identity"
    /\ last.err = ""
    /\ last.ret
    /\ ~UpdateInvoked(last)
-----------------------------------------------------------------------------
(* Properties of cluster use and of the identity commands.                 *)

\* The run is a cluster use that has started its existence query.
UseStarted(r) == r.op = "cluster use" /\ Len(r.log) >= 1

\* The resource group a cluster use run works with: the flag, else the stored one.
UsedResourceGroup(r) ==
    IF r.in.rg = "" THEN LoadConfig(r.pre).ResourceGroup ELSE r.in.rg

\* The store createCluster leaves when it succeeds on the store of the run.
CreateWouldRecord(r) ==
    LoadConfig(CreateCluster(Start(r.pre, {}, {}), 0, Sub, UsedResourceGroup(r), r.in.name,
                             "eastus", 1, "Standard_DS2_v2", <<>>).file)

\* C21: when the existence query of useCluster fails, failure is returned and
\* the store is as it was; when it succeeds, the store is the one createCluster
\* would have written for the same name and resource group; no create or
\* update command is started in either case.
C21_UseRecordsAfterQuery ==
    UseStarted(last)
        => /\ last.log[1] = AzAksShow(Sub, UsedResourceGroup(last), last.in.name)
           /\ last.failed = 1 => last.err # "" /\ file = last.pre
           /\ last.failed # 1 => Store = CreateWouldRecord(last)
           /\ \A i \in 1..Len(last.log) :
                ~(last.log[i][1] = "az" /\ last.log[i][2] = "aks"
                    /\ last.log[i][3] \in {"create", "update"})

\* A cluster use has found its cluster and recorded another selection than
\* the one stored before.
C21_Witness ==
    /\ UseStarted(last)
    /\ last.err = ""
    /\ Store.ClusterName = last.in.name
    /\ Store.ResourceGroup = UsedResourceGroup(last)
    /\ Store # LoadConfig(last.pre)
\* The first three words of the commands of a run.
Steps(log) == [i \in 1..Len(log) |-> SubSeq(log[i], 1, 3)]

IsPrefix(a, b) == Len(a) <= Len(b) /\ a = SubSeq(b, 1, Len(a))

\* The identity and client-ID steps, the steps of a service account that is
\* found to exist or is applied, and the steps of the federated credential.
IdentitySteps == <<<<"az", "identity", "create">>, <<"az", "identity", "show">>>>
ServiceAccountFound ==
    <<<<"az", "aks", "get-credentials">>, <<"az", "identity", "show">>,
      <<"kubectl", "get", "serviceaccount">>>>
ServiceAccountApplied == ServiceAccountFound \o <<<<"kubectl", "apply", "-f">>>>
FederatedSteps ==
    <<<<"az", "aks", "show">>, <<"az", "identity", "federated-credential">>>>

\* The identity name an identity create run works with.
CreatedName(r) == IF r.in.id = "" THEN "workload-identity" ELSE r.in.id

\* C22: createIdentity runs the identity creation, then the client-ID
\* resolution, then, only when a service account is asked for, the service
\* account steps followed by the federated credential steps; the identity
\* name is in the store exactly when every step has succeeded, and a run that
\* skips the service account starts no kubectl and no federated credential
\* command.
C22_CreateIdentityOrder ==
    (last.op = "identity create" /\ Len(last.log) >= 1)
        => /\ IF last.in.flag
              THEN IsPrefix(Steps(last.log), IdentitySteps)
              ELSE \/ IsPrefix(Steps(last.log),
                               IdentitySteps \o ServiceAccountFound \o FederatedSteps)
                   \/ IsPrefix(Steps(last.log),
                               IdentitySteps \o ServiceAccountApplied \o FederatedSteps)
           /\ last.failed # 0 => last.err # "" /\ file = last.pre
           /\ last.failed = 0
                => /\ last.err = ""
                   /\ Steps(last.log)[Len(last.log)] =
                        IF last.in.flag THEN <<"az", "identity", "show">>
                        ELSE <<"az", "identity", "federated-credential">>
                   /\ Store = [LoadConfig(last.pre) EXCEPT !.IdentityName = CreatedName(last)]

\* An identity create has gone through all its steps, the application of the
\* service account among them, and has stored the name.
C22_Witness ==
    /\ last.op = "identity create"
    /\ ~last.in.flag
    /\ last.err = ""
    /\ Steps(last.log) = IdentitySteps \o ServiceAccountApplied \o FederatedSteps
    /\ Store.IdentityName = CreatedName(last)
    /\ LoadConfig(last.pre).IdentityName # CreatedName(last)
\* The run is an identity create or identity use that creates a service account.
MakesServiceAccount(r) ==
    \/ r.op = "identity create" /\ ~r.in.flag
    \/ r.op = "identity use" /\ r.in.flag

\* The identity and the resource group such a run was given: the name defaults
\* in identity create, the resource group falls back to the stored one.
GivenIdentity(r) == IF r.op = "identity create" THEN CreatedName(r) ELSE r.in.id
GivenResourceGroup(r) ==
    IF r.in.rg = "" THEN LoadConfig(r.pre).ResourceGroup ELSE r.in.rg

\* The commands of a run that apply a service account manifest.
Applied(r) ==
    {i \in 1..Len(r.log) : SubSeq(r.log[i], 1, 3) = <<"kubectl", "apply", "-f">>}

\* C23: when createIdentity or useIdentity applies a service account for
\* identity I given resource group R, the manifest carries the client ID of
\* identity I in resource group R, also when R is not the resource group of
\* the selected cluster.
C23_AnnotationOfGivenIdentity ==
    MakesServiceAccount(last)
        => \A i \in Applied(last) :
              last.log[i] = KubectlApplyServiceAccount(GivenIdentity(last),
                                ClientID(GivenIdentity(last), GivenResourceGroup(last)))
\* The commands of a run that create a federated credential.
Federated(r) ==
    {i \in 1..Len(r.log) :
        SubSeq(r.log[i], 1, 3) = <<"az", "identity", "federated-credential">>}

\* The issuer lookup of a run has failed.
IssuerFailed(r) ==
    /\ r.failed # 0
    /\ SubSeq(r.log[r.failed], 1, 3) = <<"az", "aks", "show">>

\* C24: the federated credential createIdentity and useIdentity create names
\* as issuer the OIDC issuer URL of the selected cluster, looked up under the
\* cluster's name in the cluster's own resource group, whatever resource group
\* the identity is in; when the lookup fails no federated credential is
\* created.
C24_IssuerOfSelectedCluster ==
    MakesServiceAccount(last)
        => LET cfg == LoadConfig(last.pre)
           IN  /\ \A i \in Federated(last) :
                     /\ last.log[i - 1] =
                          AzAksShowIssuer(Sub, cfg.ClusterName, cfg.ResourceGroup)
                     /\ last.log[i] =
                          AzFederatedCredentialCreate(Sub, GivenIdentity(last),
                              GivenResourceGroup(last),
                              IssuerURL(cfg.ClusterName, cfg.ResourceGroup))
               /\ IssuerFailed(last) => Federated(last) = {}
-----------------------------------------------------------------------------
(* Properties of the role assignment.                                      *)

\* What an assign-role cosmosdb run works with: flags, else stored or
\* defaulted values.
RoleResourceGroup(r) == IF r.in.rg = "" THEN LoadConfig(r.pre).ResourceGroup ELSE r.in.rg
RoleIdentity(r) == IF r.in.id = "" THEN LoadConfig(r.pre).IdentityName ELSE r.in.id
RoleIdentityResourceGroup(r) == IF r.in.extra = "" THEN RoleResourceGroup(r) ELSE r.in.extra

\* The commands of a whole role assignment, in order.
RoleCommands(r) ==
    <<AzCosmosCheckName(Sub, r.in.name),
      AzCosmosShow(Sub, r.in.name, RoleResourceGroup(r)),
      AzIdentityShowPrincipal(Sub, RoleIdentity(r), RoleIdentityResourceGroup(r)),
      AzCosmosShowID(Sub, r.in.name, RoleResourceGroup(r)),
      AzRoleAssignmentCreate(Sub,
          PrincipalID(RoleIdentity(r), RoleIdentityResourceGroup(r)),
          r.in.name, RoleResourceGroup(r),
          CosmosDBResourceID(Sub, r.in.name, RoleResourceGroup(r)))>>

\* The run has started the creation of a role assignment.
RoleAssigned(r) ==
    \E i \in 1..Len(r.log) : SubSeq(r.log[i], 1, 6) =
                                <<"az", "cosmosdb", "sql", "role", "assignment", "create">>

\* C25: the role assignment runs the existence check, the show of the account,
\* the resolution of the principal ID in the identity's resource group, the
\* resolution of the ARM ID of the account and the creation of the role
\* assignment scoped to that ID, in this order; the creation is started only
\* when every earlier step has succeeded.
C25_BindOrder ==
    (last.op = "assign-role cosmosdb" /\ Len(last.log) >= 1)
        => /\ IsPrefix(last.log, RoleCommands(last))
           /\ RoleAssigned(last) => Len(last.log) = 5 /\ last.failed \notin 1..4
           /\ last.failed # 0 => Len(last.log) = last.failed /\ last.err # ""
           /\ last.failed = 0 => Len(last.log) = 5 /\ last.err = ""

\* A role assignment has been created for an identity in a resource group
\* other than the account's.
C25_Witness ==
    /\ last.op = "assign-role cosmosdb"
    /\ last.err = ""
    /\ RoleAssigned(last)
    /\ RoleIdentityResourceGroup(last) # RoleResourceGroup(last)
\* The run has persisted the identity it was given.
Persisted(r) ==
    /\ r.op \in {"identity create", "identity use"}
    /\ r.err = ""
    /\ r.log # <<>>

\* The principal lookup of an assign-role cosmosdb run, when it got that far.
PrincipalLookup(r) == r.log[3]

-----------------------------------------------------------------------------
(* Properties of the spinner of CreateCluster.                             *)

\* CreateCluster has returned, with or without an error.
CreateReturned == cc \in {"installing", "returned", "exited"}

\* The goroutine of the spinner has ended.
SpinnerEnded == sp \in {"stopped", "killed"}

\* C27: CreateCluster closes the channel of the spinner exactly once, after
\* az has returned and before it returns itself, with and without an error
\* of az; the close never waits for the goroutine; once the channel is
\* closed the goroutine eventually ends, and after it has ended the spinner
\* writes nothing more.
C27_SpinnerStopped ==
    /\ [](/\ closes <= 1
          /\ closes = 1 <=> cc \in {"saving", "installing", "returned", "exited"}
          /\ CreateReturned => closes = 1
          /\ cc = "back" => ENABLED CloseSpinner)
    /\ [][SpinnerEnded => printed' = printed /\ sp' = sp]_vars
    /\ (closes = 1 ~> SpinnerEnded)

\* az has failed, the channel has been closed, and the goroutine has written
\* its last line and returned before the process ended.
C27_Witness ==
    /\ ~azOK
    /\ cc = "returned"
    /\ closes = 1
    /\ sp = "stopped"
-----------------------------------------------------------------------------
(* Properties of the fields of the store.                                  *)

\* C28: login writes the store as its last step: a login that returns
\* failure, whichever of its commands has failed, leaves subscription and
\* tenant as they were, and a login that returns success leaves the given or
\* resolved subscription and tenant.
C28_LoginWritesLast ==
    last.op = "login"
        => /\ last.err # ""
                => /\ Store.SubscriptionID = LoadConfig(last.pre).SubscriptionID
                   /\ Store.TenantID = LoadConfig(last.pre).TenantID
           /\ last.err = ""
                => /\ Store.SubscriptionID = Sub
                   /\ Store.TenantID = Tenant
\* The fields of the store the last run has changed.
Changed == {k \in DOMAIN Config : Store[k] # LoadConfig(last.pre)[k]}

\* The fields a command may change.
OwnFields(op) ==
    IF op \in {"login", "logout"} THEN {"SubscriptionID", "TenantID"}
    ELSE IF op \in {"cluster create", "cluster use"} THEN {"ClusterName", "ResourceGroup"}
    ELSE IF op \in {"identity create", "identity use"} THEN {"IdentityName"}
    ELSE IF op = "config reset" THEN DOMAIN Config
    ELSE {}

\* C29: in a sequential session every command changes only its own fields of
\* the store: login and logout the subscription and the tenant, cluster
\* create and cluster use the cluster name and the resource group, identity
\* create and identity use the identity name; install-spin-operator,
\* check-identity, assign-role, bind, deploy and config show change nothing;
\* config reset alone changes all fields at once, to the empty record.
C29_OwnFieldsOnly ==
    last.op # "none"
        => /\ Changed \subseteq OwnFields(last.op)
           /\ (last.op = "config reset" /\ Changed # {}) => Store = Config

\* An identity use has changed the identity name, and only that, in a store
\* that holds a login and a selected cluster.
C29_Witness ==
    /\ last.op = "identity use"
    /\ Changed = {"IdentityName"}
    /\ Store.SubscriptionID # ""
    /\ Store.ClusterName # ""

\* The cluster name, or the resource group, was empty before the last run and
\* is not after it, or the reverse.
Flipped(k) == (LoadConfig(last.pre)[k] = "") # (Store[k] = "")

\* C30: in every state of a session whose cluster commands are given
\* non-empty names and resource groups, the cluster name of the store is
\* empty exactly when its resource group is; no command sets or clears one of
\* the two without the other; and the "no cluster selected" guard is the
\* same as the cluster name being empty.
C30_ClusterFieldsTogether ==
    /\ (Store.ClusterName = "") <=> (Store.ResourceGroup = "")
    /\ last.op # "none" => (Flipped("ClusterName") <=> Flipped("ResourceGroup"))
    /\ NoClusterSelected(Store) <=> (Store.ClusterName = "")

\* A cluster use given a name and a resource group has selected the first
\* cluster of a store that had none.
C30_Witness ==
    /\ last.op = "cluster use"
    /\ last.in.name # ""
    /\ last.in.rg # ""
    /\ NoClusterSelected(LoadConfig(last.pre))
    /\ Store.ClusterName = last.in.name
    /\ Store.ResourceGroup = last.in.rg

====
